---- MODULE Spec2Model ----
(***************************************************************************)
(* Model of the amazon-copilot conversation state machine                  *)
(* (src/src/amazon_copilot/services/ai/chatbot/graph.py).                  *)
(*                                                                         *)
(* One conversation is modelled.  A turn is one run_conversation call: the *)
(* entry step appends the user message and selects the start node, then    *)
(* the graph nodes run one after the other until the END node is reached   *)
(* or a node raises.                                                       *)
(*                                                                         *)
(* The graph runtime hands every node a dict built from the graph's        *)
(* channels and applies the dict the node returns to the channels.  The    *)
(* values are passed by reference, so a node's history.append acts on the  *)
(* caller's list object, while an assignment state["k"] = v in a node acts *)
(* on the node's dict and reaches only the channels.  The caller's dict    *)
(* (`state`) and the channel values (`chan`) are therefore two variables   *)
(* and `history` is the one list both refer to.                            *)
(***************************************************************************)
EXTENDS Integers, Sequences, FiniteSets, TLC

\* Number of run_conversation calls explored for the conversation.
MaxTurns == 3

\* config.py
MIN_FIELDS_FOR_SEARCH == 3
RECURSION_LIMIT == 10
REQUIRED_FIELD_FOR_SEARCH == "query"

\* Python None, as the value of an optional field.
NULL == "None"

\* schemas.py: ProductQuery, four optional fields defaulting to None.
ProductQueryFields == {"query", "main_category", "price_min", "price_max"}

FieldValues(f) ==
    CASE f = "query" -> {"dog bed"}
      [] f = "main_category" -> {"Pets"}
      [] f = "price_min" -> {"5", "10"}
      [] f = "price_max" -> {"20"}

ProductQuery ==
    [query : {NULL} \cup FieldValues("query"),
     main_category : {NULL} \cup FieldValues("main_category"),
     price_min : {NULL} \cup FieldValues("price_min"),
     price_max : {NULL} \cup FieldValues("price_max")]

\* ProductQuery(): every field None.
EmptyProductQuery == [f \in ProductQueryFields |-> NULL]

\* schemas.py: Message
Message(role, content) == [role |-> role, content |-> content]

UserInputs == {"hello", "start over"}

\* The value call_openai returns when the call or the parsing failed.
None == [type |-> "None"]

\* schemas.py: the structured responses a completion can be parsed into.
AgentResponse ==
    [type : {"AgentResponse"}, message : {"extractor message"},
     preferences : ProductQuery]

QuestionsResponse ==
    [type : {"QuestionsResponse"}, message : {"answer message"},
     restart : BOOLEAN]

PresentationResponse ==
    [type : {"PresentationResponse"}, message : {"presentation message"}]

\* call_openai(prompt, user_message, response_model): the parsed object of
\* the requested model, or None.
call_openai(response_model) == response_model \cup {None}

APOLOGY == "I'm sorry, I couldn't find any products."
ERROR_MESSAGE == "I encountered an error. Let's try again."

END == "__end__"

VARIABLES
    history,      \* the list object state["history"]
    state,        \* the caller's GraphState dict (None before the first call)
    chan,         \* the graph's channel values, the dict each node works on
    pc,           \* "idle" between calls, else the node about to run
    start_node,   \* run_conversation's start_node
    user_input,   \* run_conversation's user_input
    path,         \* the nodes that ran in the current call, in order
    pre,          \* history and state as they were when the call was made
    resp,         \* what call_openai returned to the node that ran last
    outcome,      \* how the last call ended: "result", "error" or "none"
    has_sufficient, \* route_after_collection's has_sufficient, last computed
    turns         \* calls made so far

\* The serving layer, api/routers/ai.py: requests for one conversation_uuid.
VARIABLES
    conversation_states,  \* conversation_states.get(conversation_uuid)
    lists,                \* the history list objects, by the request that made them
    rpc,                  \* per request: where handle_conversation stands
    rinput,               \* per request: request.user_input
    existing_state,       \* per request: handle_conversation's existing_state
    updated_state,        \* per request: handle_conversation's updated_state
    responses             \* per request: the messages its turn appended, and
                          \* what handle_conversation stored and returned

\* Ingestion, qdrant_client.py: one add_products call on one collection.
VARIABLES
    collection,           \* the stored points: id -> payload, NoPoint if absent
    pre_collection,       \* the collection as it was when the call was made
    ipc,                  \* where add_products stands
    input_products,       \* add_products' products argument
    batch_size,           \* add_products' batch_size argument
    prevent_duplicates,   \* add_products' prevent_duplicates argument
    check_i,              \* position of the existence-check loop
    products_to_add,      \* add_products' products_to_add
    batch_i,              \* the batch loop's i
    successful_products,  \* add_products' successful_products
    failed_products,      \* add_products' failed_products: id -> reason
    embedded,             \* ids whose names were given to the embedders
    upserted,             \* ids sent in an upsert that succeeded
    retrieve_errors,      \* ids whose existence check raised
    batch_outcomes        \* what happened to each batch, in order

convVars == <<history, state, chan, pc, start_node, user_input, path, pre,
              resp, outcome, has_sufficient, turns>>

serveVars == <<conversation_states, lists, rpc, rinput, existing_state,
               updated_state, responses>>

ingestVars == <<collection, pre_collection, ipc, input_products, batch_size,
                prevent_duplicates, check_i, products_to_add, batch_i,
                successful_products, failed_products, embedded, upserted,
                retrieve_errors, batch_outcomes>>

\* Catalog operations, qdrant_client.py: collections and the last call on them.
VARIABLES
    collections,   \* collection name -> the collection, NoCollection if absent
    store_call     \* the last catalog call: its arguments and what it returned

storeVars == <<collections, store_call>>

\* Recommendation, services/ai/recommendation/main.py.
VARIABLES
    rec_call       \* the last recommend_products call: arguments and outcome

recVars == <<rec_call>>

\* Search, qdrant_client.py search_similar_products and GET /products/search.
VARIABLES
    search_call    \* the last search: arguments, the store's part, outcome

searchVars == <<search_call>>

\* POST /products/, api/routers/products.py: requests served concurrently
\* on the one collection.
VARIABLES
    add_calls      \* per request: where add_product stands and its results

addVars == <<add_calls>>

\* The variables of one add_products call, the stored points apart.
ingestCallVars == <<pre_collection, ipc, input_products, batch_size,
                    prevent_duplicates, check_i, products_to_add, batch_i,
                    successful_products, failed_products, embedded, upserted,
                    retrieve_errors, batch_outcomes>>

\* The variables of the operations modelled after ingestion.
restVars == <<storeVars, recVars, searchVars, addVars>>

vars == <<convVars, serveVars, ingestVars, restVars>>

GraphState(preferences, products, restart_requested) ==
    [preferences |-> preferences, products |-> products,
     restart_requested |-> restart_requested]

\* The mock search: one hardcoded product, whatever the preferences.
search_products(preferences) ==
    <<[id |-> 1, name |-> "Product 1"]>>

\* Mutant: the count threshold alone, the required field forgotten.
has_sufficient_preferences_count_only(preferences) ==
    Cardinality({f \in ProductQueryFields : preferences[f] # NULL})
        >= MIN_FIELDS_FOR_SEARCH

has_sufficient_preferences(preferences) ==
    LET filled_fields ==
            Cardinality({f \in ProductQueryFields : preferences[f] # NULL})
    IN  /\ filled_fields >= MIN_FIELDS_FOR_SEARCH
        /\ preferences[REQUIRED_FIELD_FOR_SEARCH] # NULL

\* Mutant: the extractor's preferences replace the stored ones wholesale.
MergePreferences_overwrite(current_preferences, new_preferences) ==
    new_preferences

\* collect_preferences_node, lines 153-161: the merge loop.
MergePreferences(current_preferences, new_preferences) ==
    [field \in ProductQueryFields |->
        IF new_preferences[field] # NULL
        THEN new_preferences[field]
        ELSE current_preferences[field]]

route_after_collection(st) ==
    IF has_sufficient_preferences(st.preferences)
    THEN "search_products"
    ELSE "collect_preferences"

route_after_questions(st) ==
    IF st.restart_requested THEN "collect_preferences" ELSE "answer_questions"

\* Mutant: the route named collect_preferences leads back to that node.
CollectionEdges_stay_in_collection(route) ==
    IF route = "collect_preferences"
    THEN "collect_preferences"
    ELSE "search_products"

\* Mutant: both routes lead to search_products.
CollectionEdges_always_search(route) ==
    "search_products"

\* The conditional edges added after collect_preferences (both flows).
CollectionEdges(route) ==
    IF route = "collect_preferences" THEN END ELSE "search_products"

\* Mutant: answer_questions always leads on to collect_preferences.
QuestionsEdges_always_collect(route) ==
    "collect_preferences"

\* The conditional edges added after answer_questions (questions flow).
QuestionsEdges(route) ==
    IF route = "answer_questions" THEN END ELSE "collect_preferences"

\* Requests handled concurrently for the one conversation_uuid.
MaxRequests == 2

Requests == 1..MaxRequests

\* The history list objects: one a request may make, and the one of the
\* conversation an earlier request left stored.
Lists == 0..MaxRequests

\* No request has arrived and nothing is stored for the conversation_uuid.
ServeInit ==
    /\ conversation_states = None
    /\ lists = [l \in Lists |-> <<>>]
    /\ rpc = [r \in Requests |-> "new"]
    /\ rinput = [r \in Requests |-> "hello"]
    /\ existing_state = [r \in Requests |-> None]
    /\ updated_state = [r \in Requests |-> None]
    /\ responses = [r \in Requests |-> None]

ConvInit ==
    /\ history = <<>>
    /\ state = None
    /\ chan = None
    /\ pc = "idle"
    /\ start_node = "collect_preferences"
    /\ user_input = "hello"
    /\ path = <<>>
    /\ pre = [history |-> <<>>, state |-> None]
    /\ resp = None
    /\ outcome = "none"
    /\ has_sufficient = FALSE
    /\ turns = 0

\* Products of an add_products call: at most MaxProducts of them.
MaxProducts == 3

ProductIds == {1, 2, 3}

\* schemas.py: Product, by its id and the rest of its payload.
Product(id, payload) == [id |-> id, payload |-> payload]

\* No point with that id in the collection.
NoPoint == "no point"

\* No entry for that id in failed_products.
NoFailure == "no failure"

\* An add_products call has not been made; the collection is empty.
IngestIdle ==
    /\ collection = [id \in ProductIds |-> NoPoint]
    /\ pre_collection = collection
    /\ ipc = "idle"
    /\ input_products = <<>>
    /\ batch_size = 1
    /\ prevent_duplicates = TRUE
    /\ check_i = 1
    /\ products_to_add = <<>>
    /\ batch_i = 0
    /\ successful_products = <<>>
    /\ failed_products = [id \in ProductIds |-> NoFailure]
    /\ embedded = {}
    /\ upserted = {}
    /\ retrieve_errors = {}
    /\ batch_outcomes = <<>>

CollectionNames == {"amazon_products", "recommendation_test"}

\* No collection of that name.
NoCollection == [type |-> "no collection"]

\* create_collection's vectors_config and sparse_vectors_config.
SCHEMA == [dense |-> "cosine", sparse |-> "idf"]

Collection(points) == [type |-> "collection", schema |-> SCHEMA, points |-> points]

NoPoints == [id \in ProductIds |-> NoPoint]

\* No catalog call has been made; no collection exists.
StoreIdle ==
    /\ collections = [name \in CollectionNames |-> NoCollection]
    /\ store_call = [op |-> "none"]

\* recommend_products has not been called.
RecIdle == rec_call = [op |-> "none"]

\* No search has been made.
SearchIdle == search_call = [op |-> "none"]

\* Requests to POST /products/ that are served concurrently.
MaxAddRequests == 2

AddRequests == 1..MaxAddRequests

\* No request to add a product has been made.
AddIdle == add_calls = [r \in AddRequests |-> [pc |-> "idle"]]

Init ==
    ConvInit /\ ServeInit /\ IngestIdle /\ StoreIdle /\ RecIdle /\ SearchIdle
    /\ AddIdle

\* Mutant: every call starts a new history list.
EnterHistory_recreate(st, h, input) ==
    <<Message("user", input)>>

\* Mutant: the user message is only recorded for a new conversation.
EnterHistory_no_append(st, h, input) ==
    IF st = None THEN <<Message("user", input)>> ELSE h

\* run_conversation, lines 326-339: the history list of the call.
EnterHistory(st, h, input) ==
    IF st = None
    THEN <<Message("user", input)>>
    ELSE Append(h, Message("user", input))

\* Mutant: every call starts from a fresh state.
EnterState_fresh(st) ==
    GraphState(EmptyProductQuery, <<>>, FALSE)

\* Mutant: the restart flag of the previous turn is kept.
EnterState_keep_restart(st) ==
    IF st = None
    THEN GraphState(EmptyProductQuery, <<>>, FALSE)
    ELSE st

\* run_conversation, lines 326-339: the caller's dict of the call.
EnterState(st) ==
    IF st = None
    THEN GraphState(EmptyProductQuery, <<>>, FALSE)
    ELSE [st EXCEPT !.restart_requested = FALSE]

\* Mutant: every call starts at collect_preferences.
SelectStartNode_always_collect(st) ==
    "collect_preferences"

\* run_conversation, lines 326-345: start_node.
SelectStartNode(st) ==
    IF st = None
    THEN "collect_preferences"
    ELSE IF st.products # <<>>
         THEN "answer_questions"
         ELSE "collect_preferences"

\* run_conversation up to app.invoke, which writes the caller's dict to the
\* channels and follows the START edge to start_node.
RunConversation(input) ==
    /\ pc = "idle"
    /\ turns < MaxTurns
    /\ user_input' = input
    /\ pre' = [history |-> history, state |-> state]
    /\ history' = EnterHistory(state, history, input)
    /\ state' = EnterState(state)
    /\ start_node' = SelectStartNode(state)
    /\ chan' = state'
    /\ pc' = start_node'
    /\ path' = <<>>
    /\ resp' = None
    /\ outcome' = "running"
    /\ UNCHANGED has_sufficient
    /\ turns' = turns + 1
    /\ UNCHANGED <<serveVars, ingestVars, restVars>>

\* A node returned `st`; the graph follows the edge to `next`.  Reaching END
\* makes app.invoke return the channel values, which run_conversation returns.
Step(node, st, next) ==
    /\ chan' = st
    /\ path' = Append(path, node)
    /\ IF next = END
       THEN /\ pc' = "idle"
            /\ state' = st
            /\ outcome' = "result"
       ELSE /\ pc' = next
            /\ UNCHANGED <<state, outcome>>
    /\ UNCHANGED <<start_node, user_input, pre, turns>>
    /\ UNCHANGED <<serveVars, ingestVars, restVars>>

\* Mutant: the extractor's message is appended whatever the preferences.
CollectHistory_always_append(h, agent_response, merged) ==
    Append(h, Message("assistant", agent_response.message))

\* Mutant: the extractor's message is never appended.
CollectHistory_never_append(h, agent_response, merged) ==
    h

\* collect_preferences_node, lines 163-168: the extractor's message is
\* appended only when the merged preferences do not suffice for a search.
CollectHistory(h, agent_response, merged) ==
    IF ~has_sufficient_preferences(merged)
    THEN Append(h, Message("assistant", agent_response.message))
    ELSE h

\* Mutant: a failed extractor call leaves the turn without a reply.
CollectFailureHistory_silent(h) ==
    h

\* collect_preferences_node, lines 169-174: call_openai returned None.
CollectFailureHistory(h) ==
    Append(h, Message("assistant", APOLOGY))

\* collect_preferences_node followed by route_after_collection.
collect_preferences_node ==
    /\ pc = "collect_preferences"
    /\ \E agent_response \in call_openai(AgentResponse) :
        /\ resp' = agent_response
        /\ IF agent_response # None
           THEN LET merged == MergePreferences(chan.preferences,
                                               agent_response.preferences)
                    st == [chan EXCEPT !.preferences = merged]
                IN  /\ history' = CollectHistory(history, agent_response, merged)
                    /\ has_sufficient' =
                          has_sufficient_preferences(st.preferences)
                    /\ Step("collect_preferences", st,
                            CollectionEdges(route_after_collection(st)))
           ELSE /\ history' = CollectFailureHistory(history)
                /\ has_sufficient' =
                      has_sufficient_preferences(chan.preferences)
                /\ Step("collect_preferences", chan,
                        CollectionEdges(route_after_collection(chan)))

search_products_node ==
    /\ pc = "search_products"
    /\ Step("search_products",
            [chan EXCEPT !.products = search_products(chan.preferences)],
            "present_products")
    /\ UNCHANGED <<history, resp, has_sufficient>>

\* Mutant: a failed presentation call leaves the turn without a reply.
PresentHistory_silent_failure(h, presentation_response) ==
    IF presentation_response # None
    THEN Append(h, Message("assistant", presentation_response.message))
    ELSE h

\* present_products_node, lines 207-221.
PresentHistory(h, presentation_response) ==
    IF presentation_response # None
    THEN Append(h, Message("assistant", presentation_response.message))
    ELSE Append(h, Message("assistant", APOLOGY))

present_products_node ==
    /\ pc = "present_products"
    /\ \E presentation_response \in call_openai(PresentationResponse) :
        /\ resp' = presentation_response
        /\ history' = PresentHistory(history, presentation_response)
        /\ Step("present_products", chan, END)
    /\ UNCHANGED has_sufficient

\* Mutant: the restart clears the products and keeps the preferences.
ResetForRestart_keep_preferences(st) ==
    [st EXCEPT !.restart_requested = TRUE, !.products = <<>>]

\* Mutant: the restart clears the preferences and keeps the products.
ResetForRestart_keep_products(st) ==
    [st EXCEPT !.restart_requested = TRUE,
               !.preferences = EmptyProductQuery]

\* answer_questions_node, lines 267-273: the restart branch.
ResetForRestart(st) ==
    [st EXCEPT !.restart_requested = TRUE,
               !.products = <<>>,
               !.preferences = EmptyProductQuery]

\* answer_questions_node followed by route_after_questions.
answer_questions_node ==
    /\ pc = "answer_questions"
    /\ UNCHANGED has_sufficient
    /\ \E questions_response \in call_openai(QuestionsResponse) :
        /\ resp' = questions_response
        /\ IF questions_response # None
           THEN IF questions_response.restart
                THEN LET st == ResetForRestart(chan)
                     IN  /\ history' = history
                         /\ Step("answer_questions", st,
                                 QuestionsEdges(route_after_questions(st)))
                ELSE /\ history' =
                          Append(history,
                              Message("assistant", questions_response.message))
                     /\ Step("answer_questions", chan,
                             QuestionsEdges(route_after_questions(chan)))
           ELSE /\ history' = Append(history, Message("assistant", APOLOGY))
                /\ Step("answer_questions", chan,
                        QuestionsEdges(route_after_questions(chan)))

\* A node raises while it loads its prompt (load_prompt opens a file), before
\* it has changed anything; run_conversation's except clause, lines 402-406,
\* appends the error message to the caller's dict and returns that dict.
NodesThatLoadAPrompt ==
    {"collect_preferences", "present_products", "answer_questions"}

node_raises ==
    /\ pc \in NodesThatLoadAPrompt
    /\ history' = Append(history, Message("assistant", ERROR_MESSAGE))
    /\ pc' = "idle"
    /\ outcome' = "error"
    /\ UNCHANGED <<state, chan, start_node, user_input, path, pre, resp,
                   has_sufficient, turns>>
    /\ UNCHANGED <<serveVars, ingestVars, restVars>>

Next ==
    \/ \E input \in UserInputs : RunConversation(input)
    \/ collect_preferences_node
    \/ search_products_node
    \/ present_products_node
    \/ answer_questions_node
    \/ node_raises

Spec == Init /\ [][Next]_vars

(***************************************************************************)
(* The serving layer: handle_conversation (api/routers/ai.py).  The        *)
(* endpoint is a plain function, so the requests of one conversation_uuid  *)
(* run in separate threads with no lock around conversation_states.  A     *)
(* stored state is the dict run_conversation returned; its history is a    *)
(* reference to a list object, so two requests that read the same stored   *)
(* state append to the same list.                                          *)
(***************************************************************************)

\* Every state and history one run_conversation call can end with, given the
\* state and the history list contents it is called with: the nodes and
\* edges of run_conversation composed, the except clause included.
TurnResults(st0, h0, input) ==
    LET caller == EnterState(st0)
        Result(st, h) == [state |-> st, history |-> h]
        Raised(h) ==
            Result(caller, Append(h, Message("assistant", ERROR_MESSAGE)))
        Present(st, h) ==
            {Raised(h)} \cup
            {Result(st, PresentHistory(h, r)) :
                r \in call_openai(PresentationResponse)}
        Search(st, h) ==
            Present([st EXCEPT !.products = search_products(st.preferences)], h)
        AfterCollect(st, h) ==
            IF CollectionEdges(route_after_collection(st)) = END
            THEN {Result(st, h)}
            ELSE Search(st, h)
        Collected(st, h, a) ==
            LET merged == MergePreferences(st.preferences, a.preferences)
            IN  AfterCollect([st EXCEPT !.preferences = merged],
                             CollectHistory(h, a, merged))
        Collect(st, h) ==
            {Raised(h)} \cup AfterCollect(st, CollectFailureHistory(h))
                \cup UNION {Collected(st, h, a) : a \in AgentResponse}
        Answered(st, h, q) ==
            IF q = None
            THEN {Result(st, Append(h, Message("assistant", APOLOGY)))}
            ELSE IF q.restart
                 THEN Collect(ResetForRestart(st), h)
                 ELSE {Result(st, Append(h, Message("assistant", q.message)))}
        Answer(st, h) ==
            {Raised(h)} \cup
            UNION {Answered(st, h, q) : q \in call_openai(QuestionsResponse)}
    IN  IF SelectStartNode(st0) = "collect_preferences"
        THEN Collect(caller, EnterHistory(st0, h0, input))
        ELSE Answer(caller, EnterHistory(st0, h0, input))

\* A stored state: the GraphState fields and the history list it refers to.
StoredState(list, st) == [history |-> list, graph |-> st]

\* handle_conversation, lines 78-81: the request reads the stored state.
GetExistingState(r, input) ==
    /\ rpc[r] = "new"
    /\ rinput' = [rinput EXCEPT ![r] = input]
    /\ existing_state' = [existing_state EXCEPT ![r] = conversation_states]
    /\ rpc' = [rpc EXCEPT ![r] = "run"]
    /\ UNCHANGED <<conversation_states, lists, updated_state, responses>>
    /\ UNCHANGED <<convVars, ingestVars, restVars>>

\* handle_conversation, line 84: run_conversation on what the request read.
\* A new conversation gets its own history list; an existing one is extended
\* in place.
RunRequest(r) ==
    /\ rpc[r] = "run"
    /\ LET list == IF existing_state[r] = None
                   THEN r
                   ELSE existing_state[r].history
           st0 == IF existing_state[r] = None
                  THEN None
                  ELSE existing_state[r].graph
       IN  \E res \in TurnResults(st0, lists[list], rinput[r]) :
              /\ lists' = [lists EXCEPT ![list] = res.history]
              /\ updated_state' =
                    [updated_state EXCEPT ![r] = StoredState(list, res.state)]
              /\ responses' =
                    [responses EXCEPT
                        ![r] = [type |-> "turn",
                                appended |-> (Len(lists[list]) + 1)
                                                 ..Len(res.history)]]
    /\ rpc' = [rpc EXCEPT ![r] = "store"]
    /\ UNCHANGED <<conversation_states, rinput, existing_state>>
    /\ UNCHANGED <<convVars, ingestVars, restVars>>

\* handle_conversation, line 87: conversation_states[uuid] = updated_state.
StoreTarget(r) ==
    updated_state[r]

\* handle_conversation, lines 90-92: the places of the assistant messages
\* in updated_state["history"].
AssistantMessages(h) == {n \in 1..Len(h) : h[n].role = "assistant"}

\* The largest of a set of places.
Last(places) == CHOOSE n \in places : \A m \in places : m <= n

\* handle_conversation, lines 94-99: the content of the last assistant
\* message, or the greeting when there is none.
GREETING == "I'm here to help you find products. What are you looking for?"

AssistantMessage(h) ==
    IF AssistantMessages(h) # {}
    THEN [place |-> Last(AssistantMessages(h)),
          content |-> h[Last(AssistantMessages(h))].content]
    ELSE [place |-> 0, content |-> GREETING]

\* handle_conversation, lines 86-105: the state is stored, the assistant
\* message is read from the history list the state refers to, and the
\* response is returned.
StoreUpdatedState(r) ==
    /\ rpc[r] = "store"
    /\ conversation_states' = StoreTarget(r)
    /\ rpc' = [rpc EXCEPT ![r] = "done"]
    /\ responses' =
          [responses EXCEPT
              ![r] = [type |-> "response",
                      appended |-> responses[r].appended,
                      stored |-> StoreTarget(r),
                      history |-> lists[updated_state[r].history],
                      assistant_message |->
                          AssistantMessage(lists[updated_state[r].history])]]
    /\ UNCHANGED <<lists, rinput, existing_state, updated_state>>
    /\ UNCHANGED <<convVars, ingestVars, restVars>>

ServeNext ==
    \/ \E r \in Requests, input \in UserInputs : GetExistingState(r, input)
    \/ \E r \in Requests : RunRequest(r)
    \/ \E r \in Requests : StoreUpdatedState(r)

SpecServe == Init /\ [][ServeNext]_vars

\* An earlier request has been served: its state is stored for the
\* conversation_uuid, with the history list it made.
ResumeInit ==
    /\ \E res \in TurnResults(None, <<>>, "hello") :
          /\ conversation_states = StoredState(0, res.state)
          /\ lists = [l \in Lists |-> IF l = 0 THEN res.history ELSE <<>>]
    /\ rpc = [r \in Requests |-> "new"]
    /\ rinput = [r \in Requests |-> "hello"]
    /\ existing_state = [r \in Requests |-> None]
    /\ updated_state = [r \in Requests |-> None]
    /\ responses = [r \in Requests |-> None]

InitResume ==
    ConvInit /\ ResumeInit /\ IngestIdle /\ StoreIdle /\ RecIdle /\ SearchIdle
    /\ AddIdle

SpecResume == InitResume /\ [][ServeNext]_vars


(***************************************************************************)
(* Ingestion: QdrantClient.add_products (qdrant_client.py).  The           *)
(* collection holds products stored by earlier calls; one call is followed *)
(* through its existence checks and its batches.  The vector store and the *)
(* embedders are the environment: a retrieve may raise, and a batch may    *)
(* fail at embedding, at point construction or at the upsert.              *)
(***************************************************************************)

\* The collections the call may find: the ids up to some n were stored by
\* earlier calls.  The products of the call range over all ids in all
\* orders, so every other set of stored ids is one of these renamed.
StoredCollections ==
    {[id \in ProductIds |-> IF id <= n THEN "stored payload" ELSE NoPoint] :
        n \in 0..Cardinality(ProductIds)}

\* The collection when the call is made.
IngestInit ==
    /\ collection \in StoredCollections
    /\ pre_collection = collection
    /\ ipc = "idle"
    /\ input_products = <<>>
    /\ batch_size = 1
    /\ prevent_duplicates = TRUE
    /\ check_i = 1
    /\ products_to_add = <<>>
    /\ batch_i = 0
    /\ successful_products = <<>>
    /\ failed_products = [id \in ProductIds |-> NoFailure]
    /\ embedded = {}
    /\ upserted = {}
    /\ retrieve_errors = {}
    /\ batch_outcomes = <<>>

NewProducts == {Product(id, "new payload") : id \in ProductIds}

ProductLists ==
    UNION {[1..n -> NewProducts] : n \in 0..MaxProducts}

BatchSizes == {1, 2}

\* The reasons add_products writes, by their fixed text.
ALREADY_EXISTS == "already exists"
EMBEDDING_FAILED == "Embedding generation failed:"
POINT_FAILED == "Point construction failed:"
UPSERT_FAILED == "Upsert operation failed:"

BatchOutcomes == {"upserted", EMBEDDING_FAILED, POINT_FAILED, UPSERT_FAILED}

\* Mutant: the products the check marked failed stay in the list.
FilterSeq_keep_all(ps, failed) ==
    ps

RECURSIVE FilterSeq(_, _)
\* [p for p in ps if p.id not in failed]
FilterSeq(ps, failed) ==
    IF ps = <<>>
    THEN <<>>
    ELSE IF failed[Head(ps).id] = NoFailure
         THEN <<Head(ps)>> \o FilterSeq(Tail(ps), failed)
         ELSE FilterSeq(Tail(ps), failed)

RECURSIVE Upsert(_, _)
\* client.upsert: the points are written in order, a later point with the
\* same id replaces an earlier one.
Upsert(coll, points) ==
    IF points = <<>>
    THEN coll
    ELSE Upsert([coll EXCEPT ![Head(points).id] = Head(points).payload],
                Tail(points))

IdsOf(ps) == {ps[k].id : k \in 1..Len(ps)}

\* products_to_add[i : i + batch_size]
Batch(ps, i, size) ==
    SubSeq(ps, i + 1, IF i + size <= Len(ps) THEN i + size ELSE Len(ps))

\* add_products, lines 114-118 and 140-141: the call and its first branch.
AddProducts(ps, size, prevent) ==
    /\ ipc = "idle"
    /\ pre_collection' = collection
    /\ input_products' = ps
    /\ batch_size' = size
    /\ prevent_duplicates' = prevent
    /\ successful_products' = <<>>
    /\ failed_products' = [id \in ProductIds |-> NoFailure]
    /\ check_i' = 1
    /\ batch_i' = 0
    /\ IF prevent /\ ps # <<>>
       THEN /\ ipc' = "check"
            /\ products_to_add' = <<>>
       ELSE /\ products_to_add' = ps
            /\ ipc' = IF ps = <<>> THEN "returned" ELSE "batch"
    /\ UNCHANGED <<collection, embedded, upserted, retrieve_errors,
                   batch_outcomes>>
    /\ UNCHANGED <<convVars, serveVars, restVars>>

\* Mutant: a retrieve that raises counts as a product that exists.
CheckedFailure_raise_means_exists(id, raised) ==
    IF raised \/ collection[id] # NoPoint
    THEN ALREADY_EXISTS
    ELSE failed_products[id]

\* add_products, lines 120-134: the entry of failed_products for the product
\* whose existence is checked; a retrieve that raises skips the check.
CheckedFailure(id, raised) ==
    IF ~raised /\ collection[id] # NoPoint
    THEN ALREADY_EXISTS
    ELSE failed_products[id]

\* add_products, lines 119-139: one round of the existence-check loop, with
\* the filter and the early return after the last round.
CheckExisting(raised) ==
    /\ ipc = "check"
    /\ LET product == input_products[check_i]
           failed == [failed_products EXCEPT
                         ![product.id] = CheckedFailure(product.id, raised)]
       IN  /\ failed_products' = failed
           /\ retrieve_errors' = IF raised
                                 THEN retrieve_errors \cup {product.id}
                                 ELSE retrieve_errors
           /\ IF check_i < Len(input_products)
              THEN /\ check_i' = check_i + 1
                   /\ UNCHANGED <<ipc, products_to_add>>
              ELSE /\ check_i' = check_i
                   /\ products_to_add' = FilterSeq(input_products, failed)
                   /\ ipc' = IF FilterSeq(input_products, failed) = <<>>
                             THEN "returned"
                             ELSE "batch"
    /\ UNCHANGED <<collection, pre_collection, input_products, batch_size,
                   prevent_duplicates, batch_i, successful_products, embedded, upserted,
                   batch_outcomes>>
    /\ UNCHANGED <<convVars, serveVars, restVars>>

\* Mutant: a batch that fails ends the loop.
AfterBatch_abort_on_failure(result, i, size, n) ==
    IF result # "upserted" \/ i + size >= n THEN "returned" ELSE "batch"

\* add_products, lines 143 and 155/183: `continue`, the loop goes on to the
\* next batch whatever happened to this one, and returns after the last of
\* the n products.
AfterBatch(result, i, size, n) ==
    IF i + size >= n THEN "returned" ELSE "batch"

\* Mutant: an embedding failure is reported as an upsert failure.
FailureReason_upsert_only(result) ==
    UPSERT_FAILED

\* add_products, lines 152, 180, 191: the reason written for a failed batch.
FailureReason(result) ==
    result

\* Mutant: a failed batch starts the failed map afresh.
ProcessedBatch_fresh_failed(r, batch, result) ==
    IF result = "upserted"
    THEN [collection |-> Upsert(r.collection, batch),
          successful |-> r.successful \o batch,
          failed     |-> r.failed]
    ELSE [collection |-> r.collection,
          successful |-> r.successful,
          failed     |-> [id \in ProductIds |->
                             IF id \in IdsOf(batch)
                             THEN FailureReason(result)
                             ELSE NoFailure]]

\* Mutant: the products of an upserted batch are put in front.
ProcessedBatch_prepend(r, batch, result) ==
    IF result = "upserted"
    THEN [collection |-> Upsert(r.collection, batch),
          successful |-> batch \o r.successful,
          failed     |-> r.failed]
    ELSE [collection |-> r.collection,
          successful |-> r.successful,
          failed     |-> [id \in ProductIds |->
                             IF id \in IdsOf(batch)
                             THEN FailureReason(result)
                             ELSE r.failed[id]]]

\* add_products, lines 144-194: what one round of the batch loop does to the
\* collection and to the two results, r = [collection, successful, failed].
ProcessedBatch(r, batch, result) ==
    IF result = "upserted"
    THEN [collection |-> Upsert(r.collection, batch),
          successful |-> r.successful \o batch,
          failed     |-> r.failed]
    ELSE [collection |-> r.collection,
          successful |-> r.successful,
          failed     |-> [id \in ProductIds |->
                             IF id \in IdsOf(batch)
                             THEN FailureReason(result)
                             ELSE r.failed[id]]]

\* add_products, lines 143-194: one round of the batch loop.
ProcessBatch(result) ==
    /\ ipc = "batch"
    /\ LET batch == Batch(products_to_add, batch_i, batch_size)
           r == ProcessedBatch([collection |-> collection,
                                successful |-> successful_products,
                                failed     |-> failed_products],
                               batch, result)
       IN  /\ embedded' = embedded \cup IdsOf(batch)
           /\ upserted' = IF result = "upserted"
                          THEN upserted \cup IdsOf(batch)
                          ELSE upserted
           /\ collection' = r.collection
           /\ successful_products' = r.successful
           /\ failed_products' = r.failed
    /\ batch_outcomes' = Append(batch_outcomes, result)
    /\ batch_i' = batch_i + batch_size
    /\ ipc' = AfterBatch(result, batch_i, batch_size, Len(products_to_add))
    /\ UNCHANGED <<pre_collection, input_products, batch_size,
                   prevent_duplicates, check_i, products_to_add,
                   retrieve_errors>>
    /\ UNCHANGED <<convVars, serveVars, restVars>>

RECURSIVE RunBatches(_, _, _, _, _)
\* add_products, lines 143-196: the whole batch loop from offset i, when
\* batch number k ends as results[k].
RunBatches(r, ps, i, size, results) ==
    IF i >= Len(ps)
    THEN r
    ELSE LET result == results[(i \div size) + 1]
             after  == ProcessedBatch(r, Batch(ps, i, size), result)
         IN  IF AfterBatch(result, i, size, Len(ps)) = "returned"
             THEN after
             ELSE RunBatches(after, ps, i + size, size, results)

IngestNext ==
    \/ \E ps \in ProductLists, size \in BatchSizes, prevent \in BOOLEAN :
          AddProducts(ps, size, prevent)
    \/ \E raised \in BOOLEAN : CheckExisting(raised)
    \/ \E result \in BatchOutcomes : ProcessBatch(result)

InitIngest ==
    ConvInit /\ ServeInit /\ IngestInit /\ StoreIdle /\ RecIdle /\ SearchIdle
    /\ AddIdle

SpecIngest == InitIngest /\ [][IngestNext]_vars


(***************************************************************************)
(* Catalog operations of QdrantClient (qdrant_client.py) as the products   *)
(* router reaches them: create_collection, get_product and delete_product. *)
(* The vector store is the environment: its create_collection raises when  *)
(* the name exists, and any of its calls may fail.                         *)
(***************************************************************************)

\* The collections a call may find: each name absent, or holding the
\* products stored by earlier add_products calls.
StoreInit ==
    /\ collections \in
           [CollectionNames ->
               {NoCollection} \cup {Collection(c) : c \in StoredCollections}]
    /\ store_call = [op |-> "none"]

\* Mutant: the collection is recreated, dropping what it held.
ClientCreateCollection_recreate(colls, name, fails) ==
    IF fails
    THEN [raised |-> TRUE, collections |-> colls]
    ELSE [raised |-> FALSE,
          collections |-> [colls EXCEPT ![name] = Collection(NoPoints)]]

\* create_collection, lines 83-87: self.client.create_collection.  The
\* store refuses a name that exists; a call that fails creates nothing.
ClientCreateCollection(colls, name, fails) ==
    IF colls[name] # NoCollection \/ fails
    THEN [raised |-> TRUE, collections |-> colls]
    ELSE [raised |-> FALSE,
          collections |-> [colls EXCEPT ![name] = Collection(NoPoints)]]

\* create_collection, lines 82-91: True, or False for any exception.
create_collection(name, fails) ==
    /\ LET r == ClientCreateCollection(collections, name, fails)
       IN  /\ collections' = r.collections
           /\ store_call' = [op |-> "create_collection",
                             collection_name |-> name,
                             existed |-> collections[name] # NoCollection,
                             failed |-> fails,
                             result |-> IF r.raised THEN "False" ELSE "True"]
    /\ UNCHANGED <<convVars, serveVars, ingestVars, recVars, searchVars,
                 addVars>>

\* get_product, lines 396-401: self.client.retrieve.  The response is empty
\* when the id is not stored; the call raises when the collection does not
\* exist or the store fails.
ClientRetrieve(colls, name, id, fails) ==
    IF colls[name] = NoCollection \/ fails
    THEN [type |-> "Exception"]
    ELSE IF colls[name].points[id] = NoPoint
         THEN [type |-> "response", points |-> <<>>]
         ELSE [type |-> "response",
               points |-> <<Product(id, colls[name].points[id])>>]

\* Mutant: an empty response gives a product built from defaults.
ClientGetProduct_placeholder(response, id) ==
    IF response.type = "Exception"
    THEN response
    ELSE IF response.points = <<>>
         THEN [type |-> "Product", product |-> Product(id, "default payload")]
         ELSE [type |-> "Product", product |-> response.points[1]]

\* QdrantClient.get_product, lines 403-411: ValueError on an empty response,
\* else the product of the payload.
ClientGetProduct(response, id) ==
    IF response.type = "Exception"
    THEN response
    ELSE IF response.points = <<>>
         THEN [type |-> "ValueError"]
         ELSE [type |-> "Product", product |-> response.points[1]]

\* services/products.py get_product, lines 60-65: a ValueError is raised
\* again as a ValueError, anything else passes through.
ServiceGetProduct(r) == r

\* get_product_api, lines 157-167: 200 with the product, 404 for a
\* ValueError, 500 for any other exception.
get_product_api_status(r) ==
    IF r.type = "Product" THEN "200"
    ELSE IF r.type = "ValueError" THEN "404"
    ELSE "500"

\* GET /products/{product_id}
get_product(name, id, fails) ==
    /\ LET response == ClientRetrieve(collections, name, id, fails)
           r == ServiceGetProduct(ClientGetProduct(response, id))
       IN  store_call' = [op |-> "get_product",
                          collection_name |-> name,
                          product_id |-> id,
                          answered |-> response.type = "response",
                          result |-> r,
                          status |-> get_product_api_status(r)]
    /\ UNCHANGED collections
    /\ UNCHANGED <<convVars, serveVars, ingestVars, recVars, searchVars,
                 addVars>>

\* QdrantClient.delete_product, lines 423-431: self.client.delete with a
\* filter on the id.  The store deletes the points the filter selects, none
\* when the id is not stored; the call raises when the collection does not
\* exist or the store fails, and the exception is raised again.
ClientDeleteProduct(colls, name, id, fails) ==
    IF colls[name] = NoCollection \/ fails
    THEN [result |-> [type |-> "Exception"], collections |-> colls]
    ELSE [result |-> [type |-> "None"],
          collections |->
              [colls EXCEPT ![name] =
                  Collection([colls[name].points EXCEPT ![id] = NoPoint])]]

\* delete_product_api, lines 181-194: 200 with success=True, 404 for a
\* ValueError, 500 for any other exception.
delete_product_api_status(r) ==
    IF r.type = "None" THEN "200"
    ELSE IF r.type = "ValueError" THEN "404"
    ELSE "500"

\* DELETE /products/{product_id}
delete_product(name, id, fails) ==
    /\ LET r == ClientDeleteProduct(collections, name, id, fails)
       IN  /\ collections' = r.collections
           /\ store_call' = [op |-> "delete_product",
                             collection_name |-> name,
                             product_id |-> id,
                             stored |-> /\ collections[name] # NoCollection
                                        /\ collections[name].points[id] # NoPoint,
                             answered |-> r.result.type # "Exception",
                             result |-> r.result,
                             status |-> delete_product_api_status(r.result)]
    /\ UNCHANGED <<convVars, serveVars, ingestVars, recVars, searchVars,
                 addVars>>

StoreNext ==
    \/ \E name \in CollectionNames, fails \in BOOLEAN :
          create_collection(name, fails)
    \/ \E name \in CollectionNames, id \in ProductIds, fails \in BOOLEAN :
          get_product(name, id, fails)
    \/ \E name \in CollectionNames, id \in ProductIds, fails \in BOOLEAN :
          delete_product(name, id, fails)

InitStore ==
    ConvInit /\ ServeInit /\ IngestIdle /\ StoreInit /\ RecIdle /\ SearchIdle
    /\ AddIdle

SpecStore == InitStore /\ [][StoreNext]_vars

(***************************************************************************)
(* Recommendation: recommend_products (services/ai/recommendation/         *)
(* main.py).  One call is one step.  The completion provider is the        *)
(* environment; the retrieval calls go to QdrantClient.list_products,      *)
(* whose parameters are collection_name, limit and offset.                 *)
(***************************************************************************)

\* Products in a shopping cart, ideas in a completion, and the limit of a
\* call: at most so many.
MaxCart == 2
MaxIdeas == 2
MaxLimit == 2

\* shopping_cart is None.
NoCart == [type |-> "None"]

Cart(ids) == [type |-> "cart", ids |-> ids]

Carts ==
    {NoCart} \cup
    {Cart(ids) : ids \in UNION {[1..n -> ProductIds] : n \in 0..MaxCart}}

Limits == 0..MaxLimit

\* What the completion provider does: the request raises OpenAIError, or it
\* gives a content from which lines 57-66 get a list of ideas, the empty
\* list if the content is not the expected JSON.
Completions ==
    {[type |-> "OpenAIError"]} \cup
    {[type |-> "ideas", ideas |-> ideas] :
        ideas \in UNION {[1..n -> {"lamp", "rug"}] : n \in 0..MaxIdeas}}

\* "; ".join(p.name for p in shopping_cart)
cart_summary(cart) == [text |-> "cart summary", of |-> cart.ids]

\* An idea of the completion as a query text.
Idea(text) == [text |-> text]

\* "\n".join(ideas): one idea is that idea.
Join(ideas) ==
    IF Len(ideas) = 1 THEN ideas[1] ELSE [text |-> "joined", of |-> ideas]

\* The values a list holds.
Elements(seq) == {seq[n] : n \in 1..Len(seq)}

\* A retrieval call raised.
Raises(error) == [type |-> "raises", error |-> error]

\* A retrieval call returned these products, by their ids.
Hits(ids) == [type |-> "hits", ids |-> ids]

\* QdrantClient.list_products, qdrant_client.py lines 355-360.
list_products_parameters == {"collection_name", "limit", "offset"}

\* A call of list_products with these keyword arguments: Python raises
\* TypeError for a keyword the method does not have, before the store is
\* asked; otherwise the store's answer is the outcome.
list_products(kwargs, answer) ==
    IF kwargs \subseteq list_products_parameters
    THEN answer
    ELSE Raises("TypeError")

\* recommend_products, lines 81-86 and 94-96: the keywords of the calls.
PerIdeaKwargs == {"query", "collection_name", "limit", "prefetch_limit"}
BroaderKwargs == {"query", "collection_name", "limit"}

RECURSIVE Extend(_, _, _)
\* recommend_products, lines 78-89: the per-idea loop from idea k on, given
\* what each call does; "aborted" is the return [] of line 89.
Extend(results, outcomes, k) ==
    IF k > Len(outcomes)
    THEN [aborted |-> FALSE, results |-> results]
    ELSE IF outcomes[k].type = "raises"
         THEN [aborted |-> TRUE, results |-> results, at |-> k]
         ELSE Extend(results \o outcomes[k].ids, outcomes, k + 1)

RECURSIVE Excluding(_, _)
\* [p for p in results if p.id not in cart_ids]
Excluding(results, cart_ids) ==
    IF results = <<>>
    THEN <<>>
    ELSE IF Head(results) \in cart_ids
         THEN Excluding(Tail(results), cart_ids)
         ELSE <<Head(results)>> \o Excluding(Tail(results), cart_ids)

\* unique_results[:limit]
Truncate(seq, limit) ==
    SubSeq(seq, 1, IF Len(seq) < limit THEN Len(seq) ELSE limit)

Returned(ids, queries, broader) ==
    [type |-> "returned", ids |-> ids, queries |-> queries,
     broader |-> broader]

Raised(error) == [type |-> "raised", error |-> error]

\* recommend_products, lines 46-76: the ideas and the joined query after the
\* completion; on OpenAIError ideas is never assigned.
Ideas(cart, completion) ==
    IF completion.type = "OpenAIError"
    THEN [bound |-> FALSE, query |-> cart_summary(cart)]
    ELSE LET given == [k \in 1..Len(completion.ideas) |->
                          Idea(completion.ideas[k])]
             ideas == IF given = <<>> THEN <<cart_summary(cart)>> ELSE given
         IN  [bound |-> TRUE, ideas |-> ideas, query |-> Join(ideas)]

\* Mutant: nothing is excluded.
Excluded_nothing(results, cart_ids) ==
    results

\* recommend_products, lines 101-103: the results without the cart's ids.
Excluded(results, cart_ids) ==
    Excluding(results, cart_ids)

\* Mutant: a per-idea call that raises is skipped over.
PerIdeaLoop_skip_failed(outcomes) ==
    Extend(<<>>,
           [k \in 1..Len(outcomes) |->
               IF outcomes[k].type = "raises" THEN Hits(<<>>)
               ELSE outcomes[k]],
           1)

\* recommend_products, lines 78-89: the per-idea loop.
PerIdeaLoop(outcomes) ==
    Extend(<<>>, outcomes, 1)

\* recommend_products, line 91: len(results) < limit
NotEnough(results, limit) ==
    Len(results) < limit

\* recommend_products, lines 20-105, given what the completion does and how
\* each retrieval call ends, if it is made.
RecommendGiven(cart, limit, completion, per_idea, broader) ==
    IF cart = NoCart \/ limit <= 0
    THEN Returned(<<>>, <<>>, FALSE)
    ELSE LET i == Ideas(cart, completion)
         IN  IF ~i.bound
             THEN Raised("UnboundLocalError")
             ELSE
    LET loop == PerIdeaLoop(per_idea)
    IN  IF loop.aborted
        THEN Returned(<<>>, SubSeq(i.ideas, 1, loop.at), FALSE)
        ELSE IF NotEnough(loop.results, limit)
             THEN IF broader.type = "raises"
                  THEN Returned(<<>>, Append(i.ideas, i.query), TRUE)
                  ELSE Returned(
                           Truncate(Excluded(loop.results \o broader.ids,
                                             Elements(cart.ids)), limit),
                           Append(i.ideas, i.query), TRUE)
             ELSE Returned(
                      Truncate(Excluded(loop.results, Elements(cart.ids)),
                               limit),
                      i.ideas, FALSE)

\* recommend_products with its retrieval calls made of QdrantClient, given
\* what the store would answer to each.
Recommend(cart, limit, completion, per_idea, broader) ==
    RecommendGiven(cart, limit, completion,
                   [k \in DOMAIN per_idea |->
                       list_products(PerIdeaKwargs, per_idea[k])],
                   list_products(BroaderKwargs, broader))

\* What the store can answer to a retrieval call that asks for at most
\* limit products: it fails, or it gives up to limit different products.
Answers(limit) ==
    {Raises("store")} \cup
    {Hits(ids) : ids \in {h \in UNION {[1..n -> ProductIds] : n \in 0..limit} :
                             \A a, b \in 1..Len(h) : h[a] = h[b] => a = b}}

\* The answers to the per-idea calls (limit=1), one for each of n ideas.
PerIdeaAnswers(n) == [1..n -> Answers(1)]

\* How many ideas the loop of a call goes through.
NumIdeas(cart, limit, completion) ==
    IF cart = NoCart \/ limit <= 0 \/ completion.type = "OpenAIError"
    THEN 0
    ELSE Len(Ideas(cart, completion).ideas)

\* POST /recommendations: one call of recommend_products.
recommend_products(cart, limit, completion) ==
    /\ rec_call.op = "none"
    /\ \E per_idea \in PerIdeaAnswers(NumIdeas(cart, limit, completion)),
          broader \in Answers(limit) :
          rec_call' = [op |-> "recommend_products",
                       shopping_cart |-> cart,
                       limit |-> limit,
                       completion |-> completion,
                       result |-> Recommend(cart, limit, completion,
                                            per_idea, broader)]
    /\ UNCHANGED <<convVars, serveVars, ingestVars, storeVars, searchVars,
                 addVars>>

RecNext ==
    \E cart \in Carts, limit \in Limits, completion \in Completions :
        recommend_products(cart, limit, completion)

InitRec ==
    ConvInit /\ ServeInit /\ IngestIdle /\ StoreIdle /\ RecIdle /\ SearchIdle
    /\ AddIdle

SpecRec == InitRec /\ [][RecNext]_vars

(***************************************************************************)
(* Search: QdrantClient.search_similar_products (qdrant_client.py) and the *)
(* endpoint GET /products/search (api/routers/products.py).  One search is *)
(* one step.  The embedders and the vector store are the environment: the  *)
(* store ranks the points of each prefetch branch, keeps the first         *)
(* prefetch_limit that pass the branch's filter, fuses the two candidate   *)
(* lists into one order, filters it and cuts the page out of it.           *)
(***************************************************************************)

\* limit and prefetch_limit of a search go up to this, offset from 0 to it.
MaxPage == 2

\* The products in the collection that is searched: categories and price.
Catalog ==
    [id \in ProductIds |->
        IF id = 1
        THEN [main_category |-> "toys & games", sub_category |-> "dolls",
              actual_price |-> 5]
        ELSE IF id = 2
        THEN [main_category |-> "toys", sub_category |-> "board games",
              actual_price |-> 15]
        ELSE [main_category |-> "home", sub_category |-> "dolls",
              actual_price |-> 25]]

MainCategories == {NULL, "toys", "home"}
SubCategories == {NULL, "dolls"}

\* models.MatchText on a field without a full-text index: the field's text
\* contains the given text.
MatchText(value, text) ==
    \/ value = text
    \/ value = "toys & games" /\ text = "toys"

\* Mutant: only the main category makes a condition.
Filters_main_only(main_category, sub_category) ==
    IF main_category # NULL
    THEN {[key |-> "main_category", text |-> main_category]}
    ELSE {}

\* search_similar_products, lines 230-251: the conditions of query_filter,
\* none at all for query_filter = None.
Filters(main_category, sub_category) ==
    (IF main_category # NULL
     THEN {[key |-> "main_category", text |-> main_category]}
     ELSE {})
    \cup
    (IF sub_category # NULL
     THEN {[key |-> "sub_category", text |-> sub_category]}
     ELSE {})

\* models.Filter(must=filters): the point passes every condition.
Passes(id, filter) ==
    \A c \in filter : MatchText(Catalog[id][c.key], c.text)

RECURSIVE Passing(_, _)
\* The ids of a list that pass the filter, in the order of the list.
Passing(ids, filter) ==
    IF ids = <<>>
    THEN <<>>
    ELSE IF Passes(Head(ids), filter)
         THEN <<Head(ids)>> \o Passing(Tail(ids), filter)
         ELSE Passing(Tail(ids), filter)

\* The orders of the elements of a set.
Orderings(S) ==
    {order \in [1..Cardinality(S) -> S] :
        \A a, b \in 1..Cardinality(S) : order[a] = order[b] => a = b}

\* models.Prefetch(query, using, limit, filter): the first `limit` points
\* of the branch's ranking that pass the branch's filter.
Prefetch(ranking, limit, filter) ==
    Truncate(Passing(ranking, filter), limit)

\* What the two branches hand to the fusion.
Candidates(dense, sparse) == Elements(dense) \cup Elements(sparse)

\* client.query_points, lines 290-299: the page of the fused order, which
\* the store filters with query_filter.
QueryPoints(fused, query_filter, limit, offset) ==
    LET ranked == Passing(fused, query_filter)
    IN  SubSeq(ranked, offset + 1,
               IF offset + limit < Len(ranked)
               THEN offset + limit ELSE Len(ranked))

\* What a search ends with.
Products(ids) == [type |-> "products", ids |-> ids]
ValueError == [type |-> "ValueError"]
TypeError == [type |-> "TypeError"]

\* The embedders of a search: both give an embedding of the query, or the
\* dense one gives none, or the sparse one gives none.
Embeddings == {"both", "no dense", "no sparse"}

\* Mutant: a query without an embedding finds nothing.
search_similar_empty_list(main_category, sub_category, limit, offset, prefetch_limit, embeddings, fused) ==
    IF embeddings # "both"
    THEN Products(<<>>)
    ELSE Products(QueryPoints(fused, Filters(main_category, sub_category),
                              limit, offset))

\* QdrantClient.search_similar_products, lines 230-322.  The store's part
\* is in env: the two rankings and the order the fusion gives.
search_similar(main_category, sub_category, limit, offset, prefetch_limit, embeddings, fused) ==
    IF embeddings # "both"
    THEN ValueError
    ELSE Products(QueryPoints(fused, Filters(main_category, sub_category),
                              limit, offset))

\* The constant of the store's reciprocal rank fusion: a point at rank r of
\* a branch scores 1 / (RRF_K + r) for that branch.
RRF_K == 2

\* The rank of a point in the list of a branch that holds it.
Rank(branch, id) == CHOOSE n \in 1..Len(branch) : branch[n] = id

RECURSIVE Denominator(_)
\* The common denominator of the scores of ranks 1..n.
Denominator(n) ==
    IF n = 0 THEN 1 ELSE (RRF_K + n) * Denominator(n - 1)

\* models.Fusion.RRF: the sum over the branches that hold the point of
\* 1 / (RRF_K + rank), as a numerator over Denominator(MaxProducts).
RRFScore(dense, sparse, id) ==
    (IF id \in Elements(dense)
     THEN Denominator(MaxProducts) \div (RRF_K + Rank(dense, id))
     ELSE 0)
    +
    (IF id \in Elements(sparse)
     THEN Denominator(MaxProducts) \div (RRF_K + Rank(sparse, id))
     ELSE 0)

\* Mutant: the fusion gives the candidates in any order.
FusedOrders_any_order(dense, sparse) ==
    Orderings(Candidates(dense, sparse))

\* models.FusionQuery(fusion=models.Fusion.RRF): the candidates of the two
\* branches by descending score.  The query names no order for candidates
\* of equal score, so the store may give them in either order.
FusedOrders(dense, sparse) ==
    {order \in Orderings(Candidates(dense, sparse)) :
        \A a, b \in 1..Len(order) :
            a < b => RRFScore(dense, sparse, order[a])
                         >= RRFScore(dense, sparse, order[b])}

\* search_similar_products, lines 253-299: the calls made to the store.  The
\* ValueError of a missing embedding is raised before query_points.
StoreCalls(embeddings) ==
    IF embeddings # "both" THEN <<>> ELSE <<"query_points">>

\* client.search_similar_products(query, collection_name, ...)
search_similar_products(main_category, sub_category, limit, offset, prefetch_limit) ==
    /\ search_call.op = "none"
    /\ \E embeddings \in Embeddings,
          dense_ranking \in Orderings(ProductIds),
          sparse_ranking \in Orderings(ProductIds) :
          \E fused \in FusedOrders(
                           Prefetch(dense_ranking, prefetch_limit,
                                    Filters(main_category, sub_category)),
                           Prefetch(sparse_ranking, prefetch_limit,
                                    Filters(main_category, sub_category))) :
             search_call' =
                 [op |-> "search_similar_products",
                  main_category |-> main_category,
                  sub_category |-> sub_category,
                  limit |-> limit,
                  offset |-> offset,
                  prefetch_limit |-> prefetch_limit,
                  embeddings |-> embeddings,
                  dense_ranking |-> dense_ranking,
                  sparse_ranking |-> sparse_ranking,
                  fused |-> fused,
                  store_calls |-> StoreCalls(embeddings),
                  result |-> search_similar(main_category, sub_category,
                                            limit, offset, prefetch_limit,
                                            embeddings, fused)]
    /\ UNCHANGED <<convVars, serveVars, ingestVars, storeVars, recVars,
                 addVars>>

\* prefetch_limit: int = 20
DEFAULT_PREFETCH_LIMIT == 20

\* services/products.py search_products, lines 111-119: its parameters.
search_products_parameters ==
    {"client", "query", "collection_name", "limit", "offset",
     "main_category", "sub_category"}

\* search_products_api, lines 71-81: the keywords of its call.
SearchApiKwargs ==
    {"client", "query", "collection_name", "limit", "offset",
     "main_category", "sub_category", "price_min", "price_max"}

\* A price bound of the endpoint: none, or the bound.
PriceBounds == {{}, {10}, {20}}

\* search_products_api, lines 70-86: the list with 200, or 500 for any
\* exception.
search_products_api_status(r) ==
    IF r.type = "products" THEN "200" ELSE "500"

\* GET /products/search.  Python raises TypeError for a keyword that
\* search_products does not have, before anything is searched.
search_products_api(main_category, sub_category, limit, offset, price_min, price_max) ==
    /\ search_call.op = "none"
    /\ \E r \in IF SearchApiKwargs \subseteq search_products_parameters
                THEN {search_similar(main_category, sub_category, limit,
                                     offset, DEFAULT_PREFETCH_LIMIT,
                                     embeddings, fused) :
                         embeddings \in Embeddings,
                         fused \in UNION {Orderings(S) :
                                             S \in SUBSET ProductIds}}
                ELSE {TypeError} :
          search_call' = [op |-> "search_products_api",
                          main_category |-> main_category,
                          sub_category |-> sub_category,
                          limit |-> limit,
                          offset |-> offset,
                          price_min |-> price_min,
                          price_max |-> price_max,
                          result |-> r,
                          status |-> search_products_api_status(r)]
    /\ UNCHANGED <<convVars, serveVars, ingestVars, storeVars, recVars,
                 addVars>>

SearchNext ==
    \/ \E main_category \in MainCategories, sub_category \in SubCategories,
          limit \in 1..MaxPage, offset \in 0..MaxPage,
          prefetch_limit \in 1..MaxPage :
          search_similar_products(main_category, sub_category, limit, offset,
                                  prefetch_limit)
    \/ \E main_category \in MainCategories, sub_category \in SubCategories,
          limit \in 1..MaxPage, offset \in 0..MaxPage,
          price_min \in PriceBounds, price_max \in PriceBounds :
          search_products_api(main_category, sub_category, limit, offset,
                              price_min, price_max)

InitSearch ==
    ConvInit /\ ServeInit /\ IngestIdle /\ StoreIdle /\ RecIdle /\ SearchIdle
    /\ AddIdle

SpecSearch == InitSearch /\ [][SearchNext]_vars

(***************************************************************************)
(* Concurrent ingestion: POST /products/ (api/routers/products.py,         *)
(* add_product).  The endpoint is a plain function, so requests run in     *)
(* separate threads; each calls add_products with its one product and the  *)
(* default prevent_duplicates=True.  The store serves one retrieve or one  *)
(* upsert at a time; nothing in add_products holds the collection between  *)
(* its retrieve and its upsert.                                            *)
(***************************************************************************)

\* The payload of the product a request carries.
RequestPayload(r) ==
    CASE r = 1 -> "payload of request 1"
      [] r = 2 -> "payload of request 2"
      [] OTHER -> "payload of a later request"

\* add_product, lines 116-137: 409 for a duplicate, 400 when the product
\* failed otherwise, else 201 with the response.
add_product_status(successful, failed) ==
    IF failed = ALREADY_EXISTS THEN "409"
    ELSE IF successful = <<>> /\ failed # NoFailure THEN "400"
    ELSE "201"

\* add_product, lines 92-110: the request calls add_products with
\* products=[product]; add_products starts its existence check.
add_product(r, id) ==
    /\ add_calls[r].pc = "idle"
    /\ add_calls' = [add_calls EXCEPT
                        ![r] = [pc |-> "check",
                                product |-> Product(id, RequestPayload(r)),
                                retrieve_raised |-> FALSE,
                                successful |-> <<>>,
                                failed |-> NoFailure,
                                status |-> "none"]]
    /\ UNCHANGED <<collection, ingestCallVars>>
    /\ UNCHANGED <<convVars, serveVars, storeVars, recVars, searchVars>>

\* add_products, lines 119-139, for the request's one product: the retrieve,
\* the entry of failed_products when the product exists, the filter and the
\* early return.
RetrieveProduct(r, raised) ==
    /\ add_calls[r].pc = "check"
    /\ LET call == add_calls[r]
           failed == IF ~raised /\ collection[call.product.id] # NoPoint
                     THEN ALREADY_EXISTS
                     ELSE NoFailure
       IN  add_calls' =
               [add_calls EXCEPT
                   ![r] = IF failed = NoFailure
                          THEN [call EXCEPT !.pc = "batch",
                                            !.retrieve_raised = raised]
                          ELSE [call EXCEPT
                                   !.pc = "returned",
                                   !.failed = failed,
                                   !.status =
                                       add_product_status(<<>>, failed)]]
    /\ UNCHANGED <<collection, ingestCallVars>>
    /\ UNCHANGED <<convVars, serveVars, storeVars, recVars, searchVars>>

\* add_products, lines 143-196, for the request's one product: its batch,
\* and the response of the endpoint.
UpsertProduct(r, result) ==
    /\ add_calls[r].pc = "batch"
    /\ LET call == add_calls[r]
           after == ProcessedBatch(
                        [collection |-> collection,
                         successful |-> <<>>,
                         failed     |-> [id \in ProductIds |-> NoFailure]],
                        <<call.product>>, result)
       IN  /\ collection' = after.collection
           /\ add_calls' =
                  [add_calls EXCEPT
                      ![r] = [call EXCEPT
                                 !.pc = "returned",
                                 !.successful = after.successful,
                                 !.failed = after.failed[call.product.id],
                                 !.status =
                                     add_product_status(
                                         after.successful,
                                         after.failed[call.product.id])]]
    /\ UNCHANGED ingestCallVars
    /\ UNCHANGED <<convVars, serveVars, storeVars, recVars, searchVars>>

AddNext ==
    \/ \E r \in AddRequests, id \in ProductIds : add_product(r, id)
    \/ \E r \in AddRequests, raised \in BOOLEAN : RetrieveProduct(r, raised)
    \/ \E r \in AddRequests, result \in BatchOutcomes :
          UpsertProduct(r, result)

InitAdd ==
    ConvInit /\ ServeInit /\ IngestInit /\ StoreIdle /\ RecIdle /\ SearchIdle
    /\ AddIdle

SpecAdd == InitAdd /\ [][AddNext]_vars

(***************************************************************************)
(* Vocabulary of the properties                                            *)
(***************************************************************************)

\* The sufficiency rule as the specification words it: at least three of the
\* four core fields are set, and query is one of them.
NonNullFields(p) == {f \in {"query", "main_category", "price_min", "price_max"} :
                        p[f] # NULL}

SufficiencyRule(p) ==
    /\ \E F \in SUBSET NonNullFields(p) : Cardinality(F) = 3
    /\ p.query # NULL

IsPrefix(s, t) == Len(s) <= Len(t) /\ SubSeq(t, 1, Len(s)) = s

\* The messages the current call has appended to history so far.
Appended == SubSeq(history, Len(pre.history) + 1, Len(history))

AppendedWithRole(role) ==
    Cardinality({i \in 1..Len(Appended) : Appended[i].role = role})

\* The node that ran last in the current call.
LastNode == IF path = <<>> THEN "none" ELSE path[Len(path)]

\* The preferences stored for the conversation when the call was made.
StoredPreferences ==
    IF pre.state = None THEN EmptyProductQuery ELSE pre.state.preferences

\* The call is over (it returned a state to its caller).
TurnOver == pc = "idle" /\ turns > 0

\* The current call took the restart branch of answer_questions.
RestartTaken ==
    /\ path # <<>>
    /\ path[1] = "answer_questions"
    /\ chan.restart_requested

(***************************************************************************)
(* C1: has_sufficient_preferences returns true iff at least 3 of the four  *)
(* core fields are non-null and query is non-null; query plus exactly one  *)
(* other field is insufficient, and three non-null fields without query    *)
(* are insufficient.  Checked on the value route_after_collection computes *)
(* from the preferences collect_preferences leaves.                        *)
(***************************************************************************)
C1_SufficiencyIff ==
    LastNode = "collect_preferences" =>
        /\ has_sufficient = SufficiencyRule(chan.preferences)
        /\ (chan.preferences.query # NULL
              /\ Cardinality(NonNullFields(chan.preferences)) = 2)
           => ~has_sufficient
        /\ (chan.preferences.query = NULL
              /\ Cardinality(NonNullFields(chan.preferences)) = 3)
           => ~has_sufficient

\* Three fields are set, query is not, and the rule answered false.
C1_Witness ==
    /\ LastNode = "collect_preferences"
    /\ chan.preferences.query = NULL
    /\ Cardinality(NonNullFields(chan.preferences)) = 3
    /\ ~has_sufficient

(***************************************************************************)
(* C2: when collect_preferences receives a successful extractor response,  *)
(* each merged field is the new value if that is non-null and the old      *)
(* value otherwise; a null in the update never erases an existing value.   *)
(***************************************************************************)
C2_MergeFieldByField ==
    [][(pc = "collect_preferences" /\ resp'.type = "AgentResponse") =>
         \A f \in {"query", "main_category", "price_min", "price_max"} :
            /\ resp'.preferences[f] # NULL
                 => chan'.preferences[f] = resp'.preferences[f]
            /\ resp'.preferences[f] = NULL
                 => chan'.preferences[f] = chan.preferences[f]
            /\ chan.preferences[f] # NULL => chan'.preferences[f] # NULL]_vars

\* The specification's example: (query, price_min = 5) merged with
\* (query = None, price_min = 10) keeps query and takes price_min = 10.
C2_Witness ==
    /\ LastNode = "collect_preferences"
    /\ path = <<"collect_preferences">>
    /\ resp.type = "AgentResponse"
    /\ StoredPreferences.query = "dog bed"
    /\ StoredPreferences.price_min = "5"
    /\ resp.preferences.query = NULL
    /\ resp.preferences.price_min = "10"
    /\ chan.preferences.query = "dog bed"
    /\ chan.preferences.price_min = "10"

(***************************************************************************)
(* C3: a preference field that is non-null at the end of one turn is       *)
(* non-null at the end of the next turn, unless a restart was taken in     *)
(* that next turn.                                                         *)
(***************************************************************************)
C3_FieldsNeverCleared ==
    (TurnOver /\ pre.state # None) =>
        \A f \in {"query", "main_category", "price_min", "price_max"} :
            pre.state.preferences[f] # NULL =>
                state.preferences[f] # NULL \/ RestartTaken

\* A turn that ran collect_preferences on stored preferences, got an update
\* with a null for a stored field, and ended with the field still set.
C3_Witness ==
    /\ TurnOver
    /\ pre.state # None
    /\ ~RestartTaken
    /\ LastNode = "collect_preferences"
    /\ resp.type = "AgentResponse"
    /\ \E f \in {"query", "main_category", "price_min", "price_max"} :
          /\ pre.state.preferences[f] # NULL
          /\ resp.preferences[f] = NULL
          /\ state.preferences[f] # NULL

(***************************************************************************)
(* C4: a turn starts at collect_preferences when the conversation is new   *)
(* or its stored products list is empty, and at answer_questions exactly   *)
(* when the stored products list is non-empty.                             *)
(***************************************************************************)
C4_EntrySelection ==
    turns > 0 =>
        /\ start_node = IF pre.state # None /\ pre.state.products # <<>>
                        THEN "answer_questions"
                        ELSE "collect_preferences"
        /\ (pc # "idle" /\ path = <<>>) => pc = start_node
        /\ path # <<>> => path[1] = start_node

\* A turn on a conversation with stored products whose first node has run.
C4_Witness ==
    /\ pre.state # None
    /\ pre.state.products # <<>>
    /\ path # <<>>
    /\ path[1] = "answer_questions"

(***************************************************************************)
(* C5: after collect_preferences the turn proceeds to search_products iff  *)
(* the merged preferences satisfy the sufficiency rule; otherwise the turn *)
(* ends right after collect_preferences with the extractor's assistant     *)
(* message (the canned apology when the extractor call failed) appended.   *)
(***************************************************************************)
C5_RouteAfterCollection ==
    LastNode = "collect_preferences" =>
        IF SufficiencyRule(chan.preferences)
        THEN /\ pc = "search_products"
             /\ AppendedWithRole("assistant") = 0
        ELSE /\ TurnOver
             /\ outcome = "result"
             /\ state = chan
             /\ AppendedWithRole("assistant") = 1
             /\ history[Len(history)] =
                   Message("assistant",
                           IF resp = None THEN APOLOGY ELSE resp.message)

\* Preferences that did not suffice when the turn began and suffice after
\* the merge, in a conversation's second turn, with search_products next.
C5_Witness ==
    /\ LastNode = "collect_preferences"
    /\ turns = 2
    /\ SufficiencyRule(chan.preferences)
    /\ ~SufficiencyRule(StoredPreferences)
    /\ pc = "search_products"

(***************************************************************************)
(* C6: when answer_questions receives a response with restart = true,      *)
(* products becomes empty, every preference field becomes null, no message *)
(* is removed from history, and the same turn continues at                 *)
(* collect_preferences with the same user message; when restart is false   *)
(* or the provider fails, the turn ends after answer_questions.            *)
(***************************************************************************)
C6_Restart ==
    (path = <<"answer_questions">> /\ outcome # "error") =>
        IF resp # None /\ resp.restart
        THEN /\ chan.products = <<>>
             /\ \A f \in {"query", "main_category", "price_min", "price_max"} :
                   chan.preferences[f] = NULL
             /\ history = Append(pre.history, Message("user", user_input))
             /\ pc = "collect_preferences"
        ELSE /\ TurnOver
             /\ outcome = "result"

\* A restart taken on a conversation that had preferences and products.
C6_Witness ==
    /\ path = <<"answer_questions">>
    /\ outcome # "error"
    /\ resp # None
    /\ resp.restart
    /\ pre.state.products # <<>>
    /\ pre.state.preferences # EmptyProductQuery
    /\ pc = "collect_preferences"

(***************************************************************************)
(* C7: history is append-only: on every path (normal, restart, provider    *)
(* failure, caught exception) the history before is a prefix of the        *)
(* history after; no message is removed, reordered or modified.            *)
(***************************************************************************)
C7_HistoryAppendOnly ==
    [][IsPrefix(history, history')]_vars

\* A turn that took the restart branch, ran on, and returned with more
\* history than the two earlier messages it started from.
C7_Witness ==
    /\ TurnOver
    /\ RestartTaken
    /\ Len(path) > 1
    /\ Len(pre.history) >= 2
    /\ IsPrefix(pre.history, history)
    /\ Len(history) > Len(pre.history) + 1

(***************************************************************************)
(* C8: every run_conversation call appends exactly one user message,       *)
(* carrying the given user_input, before any node runs (a new conversation *)
(* starts as exactly that one message); no node appends a user message.    *)
(***************************************************************************)
C8_OneUserMessagePerCall ==
    turns > 0 =>
        /\ IsPrefix(pre.history, history)
        /\ Len(history) > Len(pre.history)
        /\ history[Len(pre.history) + 1] = Message("user", user_input)
        /\ AppendedWithRole("user") = 1
        /\ (pc # "idle" /\ path = <<>>) =>
              history = Append(pre.history, Message("user", user_input))
        /\ pre.state = None => pre.history = <<>>
        /\ Cardinality({i \in 1..Len(history) : history[i].role = "user"})
              = turns

\* The second call of a conversation, before its first node, carrying an
\* input that differs from the first call's.
C8_Witness ==
    /\ turns = 2
    /\ pc # "idle"
    /\ path = <<>>
    /\ history[1].role = "user"
    /\ history[1].content # user_input
    /\ history[Len(history)] = Message("user", user_input)

(***************************************************************************)
(* C9: in every turn, on every path through the graph, at most one         *)
(* assistant message is appended to history.                               *)
(***************************************************************************)
C9_AtMostOneAssistantMessage ==
    turns > 0 => AppendedWithRole("assistant") <= 1

\* The longest path: restart, collection, search, presentation.
C9_Witness ==
    /\ TurnOver
    /\ path = <<"answer_questions", "collect_preferences",
                "search_products", "present_products">>
    /\ AppendedWithRole("assistant") = 1

(***************************************************************************)
(* C10: if a node raises, run_conversation does not propagate: it appends  *)
(* one assistant error message and returns the state, and the state        *)
(* mutations made by the nodes that ran before the failure are not rolled  *)
(* back (the returned state carries them).                                 *)
(***************************************************************************)
C10_ExceptionKeepsMutations ==
    outcome = "error" =>
        /\ pc = "idle"
        /\ history[Len(history)] = Message("assistant", ERROR_MESSAGE)
        /\ AppendedWithRole("assistant") = 1
        /\ state.preferences = chan.preferences
        /\ state.products = chan.products

(***************************************************************************)
(* C11: when call_openai returns None to collect_preferences, the node     *)
(* does not raise, leaves every preference field unchanged, and appends    *)
(* exactly one canned apology assistant message.                           *)
(***************************************************************************)
C11_ExtractorFailure ==
    [][(pc = "collect_preferences" /\ path' # path /\ resp' = None) =>
          /\ chan'.preferences = chan.preferences
          /\ history' = Append(history, Message("assistant", APOLOGY))
          /\ outcome' # "error"]_vars

\* A turn on stored preferences whose extractor call failed and which
\* returned with the preferences as they were.
C11_Witness ==
    /\ TurnOver
    /\ path = <<"collect_preferences">>
    /\ resp = None
    /\ outcome = "result"
    /\ StoredPreferences # EmptyProductQuery
    /\ state.preferences = StoredPreferences
    /\ history[Len(history)] = Message("assistant", APOLOGY)

(***************************************************************************)
(* C12: every turn terminates: a call visits each of the four nodes at     *)
(* most once, along a stretch of answer_questions, collect_preferences,    *)
(* search_products, present_products, a node that does not raise always    *)
(* has a next step, and the recursion limit of 10 is never reached.        *)
(***************************************************************************)
LongestPath ==
    <<"answer_questions", "collect_preferences", "search_products",
      "present_products">>

NodeReturns ==
    \/ collect_preferences_node
    \/ search_products_node
    \/ present_products_node
    \/ answer_questions_node

C12_TurnTerminates ==
    turns > 0 =>
        /\ \E i \in 1..(Len(LongestPath) + 1) :
              /\ i + Len(path) - 1 <= Len(LongestPath)
              /\ path = SubSeq(LongestPath, i, i + Len(path) - 1)
        /\ Len(path) + 1 < RECURSION_LIMIT
        /\ pc # "idle" =>
              /\ \A i \in 1..Len(path) : path[i] # pc
              /\ ENABLED NodeReturns
        /\ (TurnOver /\ outcome = "result") =>
              LastNode \in {"collect_preferences", "present_products",
                            "answer_questions"}

\* A call that returned after running all four nodes.
C12_Witness ==
    /\ TurnOver
    /\ outcome = "result"
    /\ path = LongestPath

(***************************************************************************)
(* C13: whenever preference collection in a turn leaves the preferences    *)
(* sufficient, search runs in that turn and products is non-empty at the   *)
(* end of that turn; while the preferences are insufficient, products      *)
(* stays empty.                                                            *)
(***************************************************************************)
C13_SufficientMeansProducts ==
    TurnOver =>
        /\ ((\E i \in 1..Len(path) : path[i] = "collect_preferences")
              /\ has_sufficient)
           => /\ \E i \in 1..Len(path) : path[i] = "search_products"
              /\ state.products # <<>>
        /\ ~SufficiencyRule(state.preferences) => state.products = <<>>

(***************************************************************************)
(* C14: the search_products node replaces products wholesale with the      *)
(* search result computed from the current merged preferences, and the     *)
(* result depends on the preferences (some other preferences value gives   *)
(* another result).                                                        *)
(***************************************************************************)
C14_SearchDependsOnPreferences ==
    LastNode = "search_products" =>
        /\ chan.products = search_products(chan.preferences)
        /\ \E p \in ProductQuery : search_products(p) # chan.products

(***************************************************************************)
(* C15: present_products ends the turn with exactly one assistant message  *)
(* appended, the provider's presentation message on success and the canned *)
(* apology when the provider call fails; products and preferences are left *)
(* unchanged by the node.                                                  *)
(***************************************************************************)
C15_PresentEndsTurn ==
    [][(pc = "present_products" /\ path' # path) =>
          /\ history' =
                Append(history,
                       Message("assistant",
                               IF resp' = None THEN APOLOGY
                                               ELSE resp'.message))
          /\ AppendedWithRole("assistant")' = 1
          /\ chan'.products = chan.products
          /\ chan'.preferences = chan.preferences
          /\ state'.products = chan.products
          /\ state'.preferences = chan.preferences
          /\ pc' = "idle"
          /\ outcome' = "result"]_vars

\* A presentation whose provider call failed: the apology is the reply and
\* the found products are in the returned state.
C15_Witness ==
    /\ TurnOver
    /\ LastNode = "present_products"
    /\ resp = None
    /\ history[Len(history)] = Message("assistant", APOLOGY)
    /\ state.products # <<>>

(***************************************************************************)
(* C16: restart_requested is false when the first node of every turn       *)
(* starts, whatever its value at the end of the previous turn; a restart   *)
(* taken in one turn never makes the next turn's answer_questions route to *)
(* collect_preferences by itself.                                          *)
(***************************************************************************)
C16_RestartFlagReset ==
    /\ (pc # "idle" /\ path = <<>>) =>
          /\ ~chan.restart_requested
          /\ ~state.restart_requested
    /\ (path = <<"answer_questions">> /\ pc = "collect_preferences") =>
          /\ resp # None
          /\ resp.restart

\* The turn after a restart turn: the stored flag was true, the turn entered
\* at answer_questions, got restart = false and ended there.
C16_Witness ==
    /\ pre.state # None
    /\ pre.state.restart_requested
    /\ path = <<"answer_questions">>
    /\ resp # None
    /\ ~resp.restart
    /\ TurnOver

(***************************************************************************)
(* C17: at most one turn per conversation identifier executes at a time:   *)
(* concurrent requests for the same identifier are serialized, so the      *)
(* stored state after all of them contains every request's user message    *)
(* and no state update is lost.  Stated on the stored state once every     *)
(* request has been answered.                                              *)
(***************************************************************************)
UserMessages(h) == Cardinality({i \in 1..Len(h) : h[i].role = "user"})

C17_NoLostUpdate ==
    (\A r \in Requests : rpc[r] = "done") =>
        /\ conversation_states # None
        /\ UserMessages(lists[conversation_states.history]) = MaxRequests

(***************************************************************************)
(* C18.  add_products with prevent_duplicates: when the call has returned, *)
(* every input product whose id was stored when the call was made is       *)
(* reported in failed with the "already exists" reason, was never given to *)
(* the embedders, was never upserted, and its stored payload is what it    *)
(* was before the call.                                                    *)
(***************************************************************************)
C18_DuplicatesRejected ==
    (ipc = "returned" /\ prevent_duplicates) =>
        \A id \in IdsOf(input_products) :
            pre_collection[id] # NoPoint =>
                /\ failed_products[id] = ALREADY_EXISTS
                /\ id \notin embedded
                /\ id \notin upserted
                /\ collection[id] = pre_collection[id]

\* How many batches the loop of add_products makes of n products.
NumBatches(n, size) == (n + size - 1) \div size

\* Batch number k of the call, k = 1, 2, ...
BatchNo(k) == Batch(products_to_add, (k - 1) * batch_size, batch_size)

\* The results as they start the batch loop: the collection as the call
\* found it, nothing successful, no product of products_to_add failed.
BeforeBatches ==
    [collection |-> pre_collection,
     successful |-> <<>>,
     failed     |-> [id \in ProductIds |-> NoFailure]]

\* What the call reports had batch k succeeded, all else being equal.
HadSucceeded(k) ==
    RunBatches(BeforeBatches, products_to_add, 0, batch_size,
               [batch_outcomes EXCEPT ![k] = "upserted"])

\* What a result reports about a product: whether successful lists it and
\* what failed says of its id.
Reported(successful, failed, p) ==
    [successful |-> \E n \in 1..Len(successful) : successful[n] = p,
     failed     |-> failed[p.id]]

\* Every batch of the call was processed, and for every failed batch k the
\* products of the other batches that satisfy Concerned(k, p) are reported
\* as they would be had batch k succeeded.
BatchIsolation(Concerned(_, _)) ==
    ipc = "returned" =>
        /\ Len(batch_outcomes) =
               NumBatches(Len(products_to_add), batch_size)
        /\ IdsOf(products_to_add) \subseteq embedded
        /\ \A k \in 1..Len(batch_outcomes) :
              batch_outcomes[k] # "upserted" =>
                  LET otherwise == HadSucceeded(k)
                  IN  \A j \in (1..Len(batch_outcomes)) \ {k} :
                          \A n \in 1..Len(BatchNo(j)) :
                              Concerned(k, BatchNo(j)[n]) =>
                                  Reported(successful_products,
                                           failed_products, BatchNo(j)[n])
                                  = Reported(otherwise.successful,
                                             otherwise.failed, BatchNo(j)[n])

AnyProduct(k, p) == TRUE

IdNotInBatch(k, p) == p.id \notin IdsOf(BatchNo(k))

(***************************************************************************)
(* C19.  Batch isolation as stated: when add_products has returned, every  *)
(* batch was processed whatever happened to the others, and for every      *)
(* batch k that failed (embedding, point construction or upsert) every     *)
(* product of every other batch is reported as it would be had batch k     *)
(* succeeded.                                                              *)
(***************************************************************************)
C19_BatchIsolation == BatchIsolation(AnyProduct)

(***************************************************************************)
(* C19, amended.  The same, for the products of the other batches whose id *)
(* does not occur in batch k: failed is keyed by id, so the entry a failed *)
(* batch writes is also what failed says of a product with the same id in  *)
(* another batch.                                                          *)
(***************************************************************************)
C19_BatchIsolationDistinctIds == BatchIsolation(IdNotInBatch)

\* Three batches have been processed, the second failed and the third was
\* upserted after it.
C19_Witness ==
    /\ ipc = "returned"
    /\ Len(batch_outcomes) = 3
    /\ batch_outcomes[1] = "upserted"
    /\ batch_outcomes[2] = EMBEDDING_FAILED
    /\ batch_outcomes[3] = "upserted"
    /\ Len(successful_products) = 2
    /\ Cardinality(IdsOf(products_to_add)) = 3

(***************************************************************************)
(* C20.  When embedding generation fails for a batch, that round of the    *)
(* loop puts every product of the batch in failed with the reason          *)
(* "Embedding generation failed:", upserts nothing, adds nothing to        *)
(* successful, and moves past the batch: the batch is not tried again.     *)
(***************************************************************************)
C20_EmbeddingFailure ==
    [][(/\ ipc = "batch"
        /\ batch_outcomes' = Append(batch_outcomes, EMBEDDING_FAILED))
       => (/\ \A id \in IdsOf(Batch(products_to_add, batch_i, batch_size)) :
                 failed_products'[id] = EMBEDDING_FAILED
           /\ collection' = collection
           /\ upserted' = upserted
           /\ successful_products' = successful_products
           /\ batch_i' = batch_i + batch_size
           /\ Len(batch_outcomes') <=
                  NumBatches(Len(products_to_add), batch_size))]_vars

\* A batch of two products failed at embedding and both are in failed.
C20_Witness ==
    /\ batch_size = 2
    /\ Len(products_to_add) >= 2
    /\ batch_outcomes = <<EMBEDDING_FAILED>>
    /\ \A id \in IdsOf(Batch(products_to_add, 0, 2)) :
          failed_products[id] = EMBEDDING_FAILED
    /\ Cardinality(IdsOf(Batch(products_to_add, 0, 2))) = 2
    /\ successful_products = <<>>
    /\ upserted = {}

(***************************************************************************)
(* C21.  create_collection never raises: it returns True or False.  Called *)
(* on a name that exists it returns False and leaves every collection, its *)
(* schema and its stored points as they were; when the store fails for any *)
(* other reason it returns False as well.                                  *)
(***************************************************************************)
C21_CreateIdempotent ==
    [][\A name \in CollectionNames :
          (/\ store_call'.op = "create_collection"
           /\ store_call'.collection_name = name
           /\ store_call' # store_call \/ collections' # collections)
          => /\ store_call'.result \in {"True", "False"}
             /\ collections[name] # NoCollection =>
                   /\ store_call'.result = "False"
                   /\ collections' = collections
             /\ store_call'.failed => store_call'.result = "False"
             /\ store_call'.result = "True" =>
                   collections'[name] = Collection(NoPoints)]_vars

\* A second create_collection on a collection that holds products returned
\* False, and the products are still there.
C21_Witness ==
    /\ store_call.op = "create_collection"
    /\ store_call.existed
    /\ ~store_call.failed
    /\ store_call.result = "False"
    /\ collections[store_call.collection_name].schema = SCHEMA
    /\ \E id \in ProductIds :
          collections[store_call.collection_name].points[id] # NoPoint

\* The product stored under an id of a collection.
StoredProduct(name, id) == Product(id, collections[name].points[id])

RECURSIVE IsSubsequence(_, _)
\* s is t with some of its elements left out.
IsSubsequence(s, t) ==
    IF s = <<>> THEN TRUE
    ELSE IF t = <<>> THEN FALSE
    ELSE IF Head(s) = Head(t)
         THEN IsSubsequence(Tail(s), Tail(t))
         ELSE IsSubsequence(s, Tail(t))

(***************************************************************************)
(* C22.  At every point of an add_products call the successful list is a   *)
(* subsequence of the input list: the products that succeeded are reported *)
(* in the order in which the input gave them.                              *)
(***************************************************************************)
C22_SuccessfulInInputOrder ==
    IsSubsequence(successful_products, input_products)

\* Three products with different ids in three batches: the first and the
\* third succeeded and are reported in that order, the second failed.
C22_Witness ==
    /\ ipc = "returned"
    /\ Len(input_products) = 3
    /\ Cardinality(IdsOf(input_products)) = 3
    /\ batch_outcomes = <<"upserted", UPSERT_FAILED, "upserted">>
    /\ successful_products = <<input_products[1], input_products[3]>>

\* The results as the existence checks leave them, before any batch.
AfterChecks ==
    [collection |-> pre_collection,
     successful |-> <<>>,
     failed     |-> [id \in ProductIds |->
                        IF failed_products[id] = ALREADY_EXISTS
                        THEN ALREADY_EXISTS
                        ELSE NoFailure]]

RECURSIVE RunInOrder(_, _)
\* The batches of the call processed in the given order of batch numbers,
\* each ending as it ended in the call.
RunInOrder(r, order) ==
    IF order = <<>>
    THEN r
    ELSE RunInOrder(ProcessedBatch(r, BatchNo(Head(order)),
                                   batch_outcomes[Head(order)]),
                    Tail(order))

\* The orders in which n batches can be processed.
Orders(n) ==
    {order \in [1..n -> 1..n] :
        \A a, b \in 1..n : order[a] = order[b] => a = b}

\* What a caller can observe of a result, the successful products as a set.
Observable(r) ==
    [collection |-> r.collection,
     successful |-> Elements(r.successful),
     failed     |-> r.failed]

\* Whatever the order in which the batches are processed, the call ends
\* with the results the sequential loop gave.
OrderIndependent ==
    \A order \in Orders(Len(batch_outcomes)) :
        Observable(RunInOrder(AfterChecks, order))
        = Observable([collection |-> collection,
                      successful |-> successful_products,
                      failed     |-> failed_products])

Called == rec_call.op = "recommend_products"

\* The call got as far as its retrieval calls: a cart, a positive limit and
\* a completion that did not raise.
Searching ==
    /\ Called
    /\ rec_call.shopping_cart # NoCart
    /\ rec_call.limit > 0
    /\ rec_call.completion.type = "ideas"

\* What the call would return were its retrieval calls to end this way.
Given(per_idea, broader) ==
    RecommendGiven(rec_call.shopping_cart, rec_call.limit,
                   rec_call.completion, per_idea, broader)

\* The ways the per-idea calls of the call can end.
PerIdeaOutcomes ==
    PerIdeaAnswers(NumIdeas(rec_call.shopping_cart, rec_call.limit,
                            rec_call.completion))

\* No id of the cart among the ids, and at most limit of them.
CartFree(ids) ==
    /\ Elements(ids) \cap Elements(rec_call.shopping_cart.ids) = {}
    /\ Len(ids) <= rec_call.limit

(***************************************************************************)
(* C24.  Whatever the cart and however the retrieval calls end (each       *)
(* raising or returning any products, the cart's among them and in front), *)
(* the list recommend_products returns holds no product whose id is in the *)
(* cart and has at most limit elements.                                    *)
(***************************************************************************)
C24_NoCartProduct ==
    /\ (Called /\ rec_call.result.type = "returned"
               /\ rec_call.shopping_cart # NoCart)
       => CartFree(rec_call.result.ids)
    /\ (Called /\ rec_call.shopping_cart = NoCart)
       => rec_call.result.ids = <<>>
    /\ Searching =>
          \A per_idea \in PerIdeaOutcomes, broader \in Answers(rec_call.limit) :
              CartFree(Given(per_idea, broader).ids)

\* A call with a product in the cart has returned; had the first per-idea
\* search returned that very product and the broader search another one,
\* the list would hold the other one only.
C24_Witness ==
    /\ Searching
    /\ rec_call.result.type = "returned"
    /\ \E per_idea \in PerIdeaOutcomes, broader \in Answers(rec_call.limit) :
          /\ per_idea[1].type = "hits"
          /\ per_idea[1].ids # <<>>
          /\ per_idea[1].ids[1] \in Elements(rec_call.shopping_cart.ids)
          /\ Given(per_idea, broader).broader
          /\ Len(Given(per_idea, broader).ids) = 1
          /\ CartFree(Given(per_idea, broader).ids)

(***************************************************************************)
(* C25.  When the completion request of a call with a cart and a positive  *)
(* limit raises OpenAIError, recommend_products does not raise: it returns *)
(* a list, after a retrieval call whose query is the cart summary, and the *)
(* list has no product of the cart and at most limit elements.             *)
(***************************************************************************)
C25_ProviderFallback ==
    (/\ Called
     /\ rec_call.shopping_cart # NoCart
     /\ rec_call.limit > 0
     /\ rec_call.completion.type = "OpenAIError")
    => /\ rec_call.result.type = "returned"
       /\ rec_call.result.queries # <<>>
       /\ rec_call.result.queries[1] = cart_summary(rec_call.shopping_cart)
       /\ CartFree(rec_call.result.ids)

\* A retrieval call that is made raises: among the per-idea calls, or the
\* broader one.
SomeCallRaises(per_idea, broader) ==
    \/ \E k \in DOMAIN per_idea : per_idea[k].type = "raises"
    \/ Given(per_idea, broader).broader /\ broader.type = "raises"

(***************************************************************************)
(* C26.  recommend_products is fail-closed: the call as it ran, whose      *)
(* retrieval call raised, returned the empty list; and however the         *)
(* retrieval calls end, if any of those that are made raises (a per-idea   *)
(* search after others have returned hits, or the broader search) the call *)
(* returns the empty list, never the hits collected before.                *)
(***************************************************************************)
C26_FailClosed ==
    Searching =>
        /\ rec_call.result = Returned(<<>>, rec_call.result.queries, FALSE)
        /\ \A per_idea \in PerIdeaOutcomes,
              broader \in Answers(rec_call.limit) :
              SomeCallRaises(per_idea, broader) =>
                  /\ Given(per_idea, broader).type = "returned"
                  /\ Given(per_idea, broader).ids = <<>>

\* The call made a retrieval call, which raised, and returned the empty
\* list; it would have done so too had the first of two per-idea searches
\* returned a product outside the cart and the second raised.
C26_Witness ==
    /\ Searching
    /\ Len(rec_call.result.queries) = 1
    /\ rec_call.result.ids = <<>>
    /\ \E per_idea \in PerIdeaOutcomes, broader \in Answers(rec_call.limit) :
          /\ Len(per_idea) = 2
          /\ per_idea[1].type = "hits"
          /\ per_idea[1].ids # <<>>
          /\ per_idea[1].ids[1] \notin Elements(rec_call.shopping_cart.ids)
          /\ per_idea[2].type = "raises"
          /\ Given(per_idea, broader).ids = <<>>

\* The different products the per-idea searches returned.
UniqueHits(per_idea) ==
    UNION {Elements(per_idea[k].ids) :
              k \in {n \in DOMAIN per_idea : per_idea[n].type = "hits"}}

(***************************************************************************)
(* C27.  In a call that got as far as its retrieval calls, the broader     *)
(* search is issued if and only if the per-idea searches produced fewer    *)
(* than limit different products: in the call as it ran, and however the   *)
(* per-idea searches end.                                                  *)
(***************************************************************************)
C27_BroaderSearchIff ==
    Searching =>
        /\ rec_call.result.broader <=> 0 < rec_call.limit
        /\ \A per_idea \in PerIdeaOutcomes,
              broader \in Answers(rec_call.limit) :
              Given(per_idea, broader).broader
              <=> Cardinality(UniqueHits(per_idea)) < rec_call.limit

\* search_similar_products has returned products.
Searched ==
    /\ search_call.op = "search_similar_products"
    /\ search_call.result.type = "products"

\* The filter the search was asked to apply.
GivenFilter == Filters(search_call.main_category, search_call.sub_category)

\* The fused ranking of the filtered collection: the order the fusion gave,
\* which must be an order of what the two branches keep of the points that
\* pass the filter.
FusedAndFiltered ==
    Passing(search_call.fused, GivenFilter)

C29_PriceRange ==
    (/\ search_call.op = "search_products_api"
     /\ search_call.price_min # {} \/ search_call.price_max # {})
    => /\ search_call.status = "200"
       /\ search_call.result.type = "products"
       /\ \A n \in 1..Len(search_call.result.ids) :
             /\ \A bound \in search_call.price_min :
                   Catalog[search_call.result.ids[n]].actual_price >= bound
             /\ \A bound \in search_call.price_max :
                   Catalog[search_call.result.ids[n]].actual_price <= bound

(***************************************************************************)
(* C31.  Deleting a product id that is not stored in the collection, when  *)
(* the store answers, is reported as not found: delete_product raises      *)
(* ValueError and the endpoint answers 404, not a successful deletion.     *)
(***************************************************************************)
C31_DeleteMissingIsNotFound ==
    (/\ store_call.op = "delete_product"
     /\ store_call.answered
     /\ ~store_call.stored)
    => /\ store_call.result.type = "ValueError"
       /\ store_call.status = "404"

\* The two rank lists the fusion of the search was given.
DenseRanks ==
    Prefetch(search_call.dense_ranking, search_call.prefetch_limit,
             GivenFilter)
SparseRanks ==
    Prefetch(search_call.sparse_ranking, search_call.prefetch_limit,
             GivenFilter)

\* What a run of the same search with the same two rank lists can return.
OtherRuns ==
    {QueryPoints(fused, GivenFilter, search_call.limit, search_call.offset) :
        fused \in FusedOrders(DenseRanks, SparseRanks)}

AlternatingRole(n) == IF n % 2 = 1 THEN "user" ELSE "assistant"

(***************************************************************************)
(* C33.  Between the calls of one conversation, history alternates user,   *)
(* assistant, user, assistant, ... from a user message, and after n calls  *)
(* it holds exactly 2n messages: every call appends its user message and   *)
(* exactly one assistant message.                                          *)
(***************************************************************************)
C33_HistoryAlternates ==
    pc = "idle" =>
        /\ Len(history) = 2 * turns
        /\ \A n \in 1..Len(history) : history[n].role = AlternatingRole(n)

\* Three calls are over, and the last took the restart branch and went on
\* through the collection, where its one assistant message was appended.
C33_Witness ==
    /\ pc = "idle"
    /\ turns = MaxTurns
    /\ RestartTaken
    /\ path = <<"answer_questions", "collect_preferences">>
    /\ Len(history) = 2 * MaxTurns

(***************************************************************************)
(* C34.  At the end of every turn, if the state of the conversation holds  *)
(* products, its preferences satisfy the sufficiency rule: products are    *)
(* never held together with insufficient or reset preferences.             *)
(***************************************************************************)
C34_ProductsImplySufficient ==
    (TurnOver /\ state.products # <<>>) => SufficiencyRule(state.preferences)

\* A turn that restarted a conversation holding products, collected new
\* preferences and ended with the products of a new search.
C34_Witness ==
    /\ TurnOver
    /\ pre.state # None
    /\ pre.state.products # <<>>
    /\ RestartTaken
    /\ LastNode = "present_products"
    /\ state.products # <<>>
    /\ state.preferences # pre.state.preferences

\* The call entered the graph at answer_questions and no restart was asked
\* for.
AnsweredWithoutRestart ==
    /\ TurnOver
    /\ start_node = "answer_questions"
    /\ ~chan.restart_requested

(***************************************************************************)
(* C35.  A turn that enters at answer_questions and does not restart (the  *)
(* provider answers with restart = false, or its call fails) returns the   *)
(* products and the preferences the conversation had before the turn; only *)
(* history has grown.                                                      *)
(***************************************************************************)
C35_AnswerLeavesStateAlone ==
    AnsweredWithoutRestart =>
        /\ state.products = pre.state.products
        /\ state.preferences = pre.state.preferences
        /\ IsPrefix(pre.history, history)
        /\ Len(history) > Len(pre.history)

\* The provider's call failed in a turn that entered at answer_questions.
C35_Witness ==
    /\ AnsweredWithoutRestart
    /\ path = <<"answer_questions">>
    /\ resp = None
    /\ state.products # <<>>
    /\ Len(history) = Len(pre.history) + 2

\* How many elements of successful have the id.
TimesSuccessful(id) ==
    Cardinality({k \in 1..Len(successful_products) :
                    successful_products[k].id = id})

\* add_products has returned for an input of pairwise distinct ids.
ReturnedForDistinctIds ==
    /\ ipc = "returned"
    /\ \A a, b \in 1..Len(input_products) :
          input_products[a].id = input_products[b].id => a = b

(***************************************************************************)
(* C36.  For an input list of pairwise distinct ids, add_products returns  *)
(* a partition of the input: the id of every input product is the id of    *)
(* exactly one element of successful or a key of failed, never both and    *)
(* never neither, and no other id is in successful or in failed.           *)
(***************************************************************************)
C36_ResultPartitionsInput ==
    ReturnedForDistinctIds =>
        \A id \in ProductIds :
            IF id \in IdsOf(input_products)
            THEN \/ TimesSuccessful(id) = 1 /\ failed_products[id] = NoFailure
                 \/ TimesSuccessful(id) = 0 /\ failed_products[id] # NoFailure
            ELSE TimesSuccessful(id) = 0 /\ failed_products[id] = NoFailure

\* Of three products one was found stored, one was in a batch that failed
\* and one was upserted.
C36_Witness ==
    /\ ReturnedForDistinctIds
    /\ Len(input_products) = 3
    /\ prevent_duplicates
    /\ \E id \in ProductIds : failed_products[id] = ALREADY_EXISTS
    /\ \E id \in ProductIds : failed_products[id] = EMBEDDING_FAILED
    /\ Len(successful_products) = 1

\* The requests that reported the id as successfully added.
AddedBy(id) ==
    {r \in AddRequests :
        /\ add_calls[r].pc = "returned"
        /\ add_calls[r].product.id = id
        /\ add_calls[r].successful # <<>>}

\* No existence check of a request has raised.
EveryCheckAnswered ==
    \A r \in AddRequests :
        add_calls[r].pc # "idle" => ~add_calls[r].retrieve_raised

(***************************************************************************)
(* C37.  When concurrent add_products calls with prevent_duplicates=true   *)
(* carry the same id, not stored before, and every existence check is      *)
(* answered, at most one call reports the id as successful, and the        *)
(* payload that call wrote is the one the collection holds.                *)
(***************************************************************************)
C37_OneWriterPerId ==
    EveryCheckAnswered =>
        \A id \in ProductIds :
            pre_collection[id] = NoPoint =>
                /\ Cardinality(AddedBy(id)) <= 1
                /\ \A r \in AddedBy(id) : collection[id] = RequestPayload(r)

\* add_products ran with prevent_duplicates and has returned, and the
\* existence check of a product with this id raised.
CheckRaised(id) ==
    /\ ipc = "returned"
    /\ prevent_duplicates
    /\ id \in retrieve_errors

\* The product went the way of a new product: it was not reported as
\* existing, its name was embedded with its batch, and it was upserted or
\* has the failure of its batch.
TreatedAsNew(id) ==
    /\ failed_products[id] # ALREADY_EXISTS
    /\ id \in IdsOf(products_to_add)
    /\ id \in embedded
    /\ \/ /\ id \in upserted
          /\ failed_products[id] = NoFailure
          /\ collection[id] = "new payload"
       \/ failed_products[id] \in
              {EMBEDDING_FAILED, POINT_FAILED, UPSERT_FAILED}

Responded(r) == rpc[r] = "done"

(***************************************************************************)
(* C38.  The assistant_message handle_conversation returns for a turn is a *)
(* message that turn appended to history, and it is the last message of    *)
(* the history of the state it stored; the state it stored under the       *)
(* conversation identifier is the state the turn returned.                 *)
(***************************************************************************)
C38_ResponseIsOfThisTurn ==
    \A r \in Requests :
        Responded(r) =>
            /\ responses[r].assistant_message.place \in responses[r].appended
            /\ responses[r].assistant_message.place
                   = Len(responses[r].history)
            /\ responses[r].stored = updated_state[r]

\* search_similar_products was called and an embedder gave no embedding of
\* the query text.
NoEmbedding ==
    /\ search_call.op = "search_similar_products"
    /\ search_call.embeddings \in {"no dense", "no sparse"}

(***************************************************************************)
(* C40.  When the dense or the sparse embedder yields no embedding for the *)
(* query text, search_similar_products raises ValueError and makes no call *)
(* to the vector store; it does not return a list.                         *)
(***************************************************************************)
C40_NoEmbeddingRaises ==
    NoEmbedding =>
        /\ search_call.result = ValueError
        /\ search_call.store_calls = <<>>

\* The dense embedder gave an embedding and the sparse one gave none.
C40_Witness ==
    /\ NoEmbedding
    /\ search_call.embeddings = "no sparse"
    /\ search_call.result = ValueError

====
